---- MODULE Spec2Model ----
(***************************************************************************)
(* Model of the weather/solar prediction backend: the POST /api/data       *)
(* handler (location resolution, weather fetches, per-variable model       *)
(* training and blending, response assembly), the forward and reverse      *)
(* geocoding services and the autocomplete service.                        *)
(*                                                                         *)
(* Conventions.  A Python Optional is a tuple of length 0 (None) or 1.     *)
(* Text is a sequence of one-character strings.  A coordinate is an        *)
(* integer number of 1e-5 degrees.  Coordinates whose decimal expansion    *)
(* would sit exactly on a rounding tie are not used as inputs, the binary  *)
(* floating point value of such a number deciding the tie in the program.  *)
(*                                                                         *)
(* Five specifications.  Spec follows a request through the providers      *)
(* and keeps a summary of each frame.  SeriesSpec follows the fetches, the *)
(* model forecasts, the blending and the response on the rows and the      *)
(* binary64 values of the frames.  BlendSpec applies blend_ml_and_api to   *)
(* any two small series, CurrentSpec extract_current_from_forecast to a    *)
(* forecast frame at some instant, and EnsembleSpec trains the ensemble    *)
(* and follows forecast_with_ensemble iteration by iteration.              *)
(***************************************************************************)
EXTENDS Integers, Sequences, FiniteSets, TLC

VARIABLES
    endpoint,             \* "data" (POST /api/data) or "autocomplete"
    request,              \* the LocationRequest fields of a data request
    GOOGLE_MAPS_API_KEY,  \* the optional key read from the environment
    pc,                   \* position of the handler
    variation,            \* geocode_location: index of the variation tried (0: not running)
    geocoder,             \* index of the provider the running loop tries next (0: none)
    log,                  \* outbound calls of the service function running
    lat, lon,             \* the handler's coordinates
    geo_data,             \* the resolved location
    attempt,              \* fetch_*: index of the variable set tried
    historical_df,        \* result of step 2
    forecast_df,          \* result of step 3
    target,               \* index of the target variable being processed
    ml_forecasts,         \* step 5: per target variable
    model,                \* step 5: the models each model forecast was made with
    blended_df,           \* step 6: per target variable
    response,             \* what the caller receives
    query,                \* autocomplete: the query text
    limit,                \* autocomplete: the limit argument
    all_suggestions,      \* autocomplete: the collected candidates
    suggestions,          \* autocomplete: the list returned
    now,                  \* extract_current_from_forecast: the instant of the call
    current,              \* step 4: the current conditions
    clean_series,         \* the history without its missing values
    steps,                \* forecast_with_ensemble: the number of predictions asked
    lags,                 \* the number of lags train_ensemble_model returns
    scores,               \* train_ensemble_model: rf_score and gb_score
    models,               \* the dictionary train_ensemble_model returns
    window,               \* forecast_with_ensemble: the window
    predictions_rf,       \* forecast_with_ensemble: predictions of the first model
    predictions_gb,       \* forecast_with_ensemble: predictions of the second
    step,                 \* forecast_with_ensemble: iterations made
    final_predictions     \* forecast_with_ensemble: the list returned

vars == <<endpoint, request, GOOGLE_MAPS_API_KEY, pc, variation, geocoder, log,
          lat, lon, geo_data, attempt, historical_df, forecast_df, target,
          ml_forecasts, model, blended_df, response, query, limit,
          all_suggestions, suggestions, now, current, clean_series, steps,
          lags, scores, models, window, predictions_rf, predictions_gb, step,
          final_predictions>>

----------------------------------------------------------------------------
(* Optional values and text                                                *)

None == <<>>
Some(x) == <<x>>
\* Truthiness mistaken for "is not None": an empty string passes.
Truthy_NotNone(o) == o # None

Truthy(o) == o # None /\ o[1] # <<>>

Range(s) == {s[i] : i \in 1..Len(s)}

RECURSIVE lstrip(_)
lstrip(s) == IF s # <<>> /\ Head(s) = " " THEN lstrip(Tail(s)) ELSE s

RECURSIVE rstrip(_)
rstrip(s) ==
    IF s # <<>> /\ s[Len(s)] = " " THEN rstrip(SubSeq(s, 1, Len(s) - 1)) ELSE s

strip(s) == rstrip(lstrip(s))

----------------------------------------------------------------------------
(* Forward geocoding: services/geocode.py                                  *)

\* The country suffixes appended to a text that holds no comma.
CountrySuffixes ==
    << <<",", " ", "I", "n", "d", "i", "a">>,
       <<",", " ", "U", "S", "A">>,
       <<",", " ", "U", "n", "i", "t", "e", "d", " ", "S", "t", "a", "t", "e", "s">>,
       <<",", " ", "U", "K">>,
       <<",", " ", "U", "n", "i", "t", "e", "d", " ", "K", "i", "n", "g", "d", "o", "m">>,
       <<",", " ", "C", "a", "n", "a", "d", "a">>,
       <<",", " ", "A", "u", "s", "t", "r", "a", "l", "i", "a">>,
       <<",", " ", "G", "e", "r", "m", "a", "n", "y">>,
       <<",", " ", "F", "r", "a", "n", "c", "e">> >>

\* The variations with the comma test left out.
_try_with_variations_AlwaysSuffixed(location_name) ==
    <<strip(location_name)>> \o
    [i \in 1..Len(CountrySuffixes) |-> strip(location_name) \o CountrySuffixes[i]]

\* The variations of a location text, in the order they are tried.
_try_with_variations(location_name) ==
    LET location_clean == strip(location_name)
    IN  <<strip(location_name)>> \o
        (IF "," \notin Range(location_clean)
         THEN [i \in 1..Len(CountrySuffixes) |-> location_clean \o CountrySuffixes[i]]
         ELSE <<>>)

\* What a geocoding provider answers to one HTTP request: a failure (timeout,
\* error status, malformed body), an empty result list, or a first result
\* whose latitude and longitude may each be missing.
UpstreamCoords ==
    {<<None, None>>, <<Some(1852040), None>>, <<Some(0), Some(0)>>,
     <<Some(0), Some(7385670)>>, <<Some(1852040), Some(7385670)>>}

UpstreamGeo ==
    {[kind |-> "error", lat |-> None, lon |-> None],
     [kind |-> "empty", lat |-> None, lon |-> None]}
    \cup {[kind |-> "result", lat |-> c[1], lon |-> c[2]] : c \in UpstreamCoords}

\* The name an upstream result carries.
PlaceName == <<"P", "u", "n", "e">>

GeoResult(name, up) ==
    Some([name |-> name, latitude |-> up.lat[1], longitude |-> up.lon[1]])

\* Each provider function catches every exception and returns None for it.
_geocode_openmeteo(location_name, up) ==
    IF up.kind = "result" /\ up.lat # None /\ up.lon # None
    THEN GeoResult(PlaceName, up)
    ELSE None

_geocode_nominatim(location_name, up) ==
    IF up.kind = "result" /\ up.lat # None /\ up.lon # None
    THEN GeoResult(PlaceName, up)
    ELSE None

\* GeoCode.xyz answers 0,0 for a place it does not know.
_geocode_geocodexyz(location_name, up) ==
    IF /\ up.kind = "result" /\ up.lat # None /\ up.lon # None
       /\ (up.lat[1] # 0 \/ up.lon[1] # 0)
    THEN GeoResult(PlaceName, up)
    ELSE None

\* The paid provider: no request at all without a key; a zero latitude or
\* longitude is falsy and gives no result.
_geocode_google_maps(location_name, api_key, up) ==
    IF ~Truthy(api_key) THEN None
    ELSE IF /\ up.kind = "result" /\ up.lat # None /\ up.lon # None
            /\ up.lat[1] # 0 /\ up.lon[1] # 0
         THEN GeoResult(PlaceName, up)
         ELSE None

\* The list of providers geocode_location builds, in the order it tries them.
ForwardGeocoders(google_api_key) ==
    (IF Truthy(google_api_key) THEN <<"Google Maps">> ELSE <<>>)
    \o <<"Open-Meteo", "Nominatim", "GeoCode.xyz">>

\* The loops nested the other way round: every variation for a provider
\* before the next provider.
NextGeocodeAttempt_ProviderMajor(v, g, variations, geocoders) ==
    IF v < Len(variations) THEN <<v + 1, g>>
    ELSE IF g < Len(geocoders) THEN <<1, g + 1>>
         ELSE <<0, 0>>

\* The nested loops of geocode_location: the (variation, provider) pair tried
\* after the pair (v, g) gave no result; <<0, 0>> when none is left.
NextGeocodeAttempt(v, g, variations, geocoders) ==
    IF g < Len(geocoders) THEN <<v, g + 1>>
    ELSE IF v < Len(variations) THEN <<v + 1, 1>>
         ELSE <<0, 0>>

\* One provider call of geocode_location.
CallGeocoder(name, location_name, google_api_key, up) ==
    CASE name = "Google Maps" -> _geocode_google_maps(location_name, google_api_key, up)
      [] name = "Open-Meteo" -> _geocode_openmeteo(location_name, up)
      [] name = "Nominatim" -> _geocode_nominatim(location_name, up)
      [] name = "GeoCode.xyz" -> _geocode_geocodexyz(location_name, up)

----------------------------------------------------------------------------
(* Reverse geocoding: services/reverse_geocode.py                          *)

DigitChar == <<"0", "1", "2", "3", "4", "5", "6", "7", "8", "9">>

RECURSIVE Digits(_)
Digits(n) ==
    IF n < 10 THEN <<DigitChar[n + 1]>>
    ELSE Digits(n \div 10) \o <<DigitChar[(n % 10) + 1]>>

\* Four decimals cut off instead of rounded.
Format4f_Truncated(x) ==
    LET a == IF x < 0 THEN 0 - x ELSE x
        r == a \div 10
        f == r % 10000
    IN  (IF x < 0 THEN <<"-">> ELSE <<>>)
        \o Digits(r \div 10000) \o <<".">>
        \o <<DigitChar[((f \div 1000) % 10) + 1], DigitChar[((f \div 100) % 10) + 1],
             DigitChar[((f \div 10) % 10) + 1], DigitChar[(f % 10) + 1]>>

\* Python's f"{x:.4f}" of a coordinate x (in 1e-5 degrees): the sign, the
\* whole degrees, a point and four decimals, rounded to nearest.
Format4f(x) ==
    LET a == IF x < 0 THEN 0 - x ELSE x
        r == (a + 5) \div 10
        f == r % 10000
    IN  (IF x < 0 THEN <<"-">> ELSE <<>>)
        \o Digits(r \div 10000) \o <<".">>
        \o <<DigitChar[((f \div 1000) % 10) + 1], DigitChar[((f \div 100) % 10) + 1],
             DigitChar[((f \div 10) % 10) + 1], DigitChar[(f % 10) + 1]>>

\* f"{lat:.4f}, {lon:.4f}"
CoordinateName(la, lo) == Format4f(la) \o <<",", " ">> \o Format4f(lo)

\* What a reverse geocoding provider answers to one HTTP request.
UpstreamNames == {<<>>, PlaceName}

UpstreamReverse ==
    {[kind |-> "error", name |-> <<>>, display_name |-> <<>>],
     [kind |-> "empty", name |-> <<>>, display_name |-> <<>>]}
    \cup {[kind |-> "result", name |-> n, display_name |-> d] :
              n \in UpstreamNames, d \in UpstreamNames}

ReverseResult(name, display_name, la, lo) ==
    Some([name |-> name, display_name |-> display_name,
          latitude |-> la, longitude |-> lo])

reverse_geocode_nominatim(la, lo, up) ==
    IF up.kind = "result" THEN ReverseResult(up.name, up.display_name, la, lo)
    ELSE None

reverse_geocode_openmeteo(la, lo, up) ==
    IF up.kind = "result" THEN ReverseResult(up.name, up.name, la, lo)
    ELSE None

reverse_geocode_google_maps(la, lo, api_key, up) ==
    IF ~Truthy(api_key) THEN None
    ELSE IF up.kind = "result"
         THEN ReverseResult(up.display_name, up.display_name, la, lo)
         ELSE None

\* The providers of reverse_geocode in the order of forward geocoding.
ReverseGeocoders_ForwardOrder(google_api_key) ==
    (IF Truthy(google_api_key) THEN <<"Google Maps">> ELSE <<>>)
    \o <<"Open-Meteo", "Nominatim">>

\* The list of providers reverse_geocode builds, in the order it tries them.
ReverseGeocoders(google_api_key) ==
    (IF Truthy(google_api_key) THEN <<"Google Maps">> ELSE <<>>)
    \o <<"Nominatim", "Open-Meteo">>

CallReverseGeocoder(name, la, lo, google_api_key, up) ==
    CASE name = "Google Maps" -> reverse_geocode_google_maps(la, lo, google_api_key, up)
      [] name = "Nominatim" -> reverse_geocode_nominatim(la, lo, up)
      [] name = "Open-Meteo" -> reverse_geocode_openmeteo(la, lo, up)

\* The result reverse_geocode returns when no provider gave one.
ReverseFallback(la, lo) ==
    [name |-> CoordinateName(la, lo), display_name |-> CoordinateName(la, lo),
     latitude |-> la, longitude |-> lo]

\* geo_data as the handler builds it from a reverse geocoding result:
\* display_name or name.
GeoDataFromReverse(reverse_geo, la, lo) ==
    [name |-> IF reverse_geo.display_name # <<>> THEN reverse_geo.display_name
              ELSE reverse_geo.name,
     latitude |-> la, longitude |-> lo]

----------------------------------------------------------------------------
(* Autocomplete: services/geocode_autocomplete.py                          *)

\* The most entries one upstream answer holds, and the largest limit argument.
MaxResults == 2
MaxLimit == 2

Min(a, b) == IF a < b THEN a ELSE b

\* s[:n]
Take(s, n) == SubSeq(s, 1, Min(n, Len(s)))

\* Candidate coordinates of upstream entries: the first two lie in the same
\* 0.001-degree cell, the third in another; an entry may also lack them.
CandidateCoords == {<<0, 0>>, <<40, 30>>, <<60, 30>>}

UpstreamEntries ==
    {[lat |-> None, lon |-> None]}
    \cup {[lat |-> Some(c[1]), lon |-> Some(c[2])] : c \in CandidateCoords}

SeqsUpTo(S, n) == UNION {[1..k -> S] : k \in 0..n}

UpstreamAutocomplete ==
    {[kind |-> "error", results |-> <<>>]}
    \cup {[kind |-> "ok", results |-> r] : r \in SeqsUpTo(UpstreamEntries, MaxResults)}

Suggestion(e, source) ==
    [latitude |-> e.lat[1], longitude |-> e.lon[1], source |-> source]

HasCoords(e) == e.lat # None /\ e.lon # None

\* Truthiness of a numeric latitude and longitude: zero is falsy.
HasTruthyCoords(e) == HasCoords(e) /\ e.lat[1] # 0 /\ e.lon[1] # 0

RECURSIVE Suggestions(_, _, _)
Suggestions(entries, source, paid) ==
    IF entries = <<>> THEN <<>>
    ELSE (IF (IF paid THEN HasTruthyCoords(Head(entries)) ELSE HasCoords(Head(entries)))
          THEN <<Suggestion(Head(entries), source)>>
          ELSE <<>>)
         \o Suggestions(Tail(entries), source, paid)

autocomplete_openmeteo(q, lim, up) ==
    IF up.kind = "error" THEN <<>>
    ELSE Suggestions(Take(up.results, lim), "Open-Meteo", FALSE)

autocomplete_nominatim(q, lim, up) ==
    IF up.kind = "error" THEN <<>>
    ELSE Suggestions(Take(up.results, lim), "Nominatim", FALSE)

autocomplete_google_maps(q, api_key, lim, up) ==
    IF ~Truthy(api_key) THEN <<>>
    ELSE IF up.kind = "error" THEN <<>>
         ELSE Suggestions(Take(up.results, lim), "Google Maps", TRUE)

\* round(x, 3) of a coordinate in 1e-5 degrees, to nearest; -0.0 equals 0.0.
Round3(x) ==
    IF x < 0 THEN 0 - (((0 - x) + 50) \div 100) * 100
    ELSE ((x + 50) \div 100) * 100

\* The key without the rounding.
coord_key_Unrounded(suggestion) == <<suggestion.latitude, suggestion.longitude>>

coord_key(suggestion) == <<Round3(suggestion.latitude), Round3(suggestion.longitude)>>

\* The deduplication loop of get_autocomplete_suggestions from index i on.
RECURSIVE DedupFrom(_, _, _, _, _)
DedupFrom(all, i, seen_coords, unique_suggestions, lim) ==
    IF i > Len(all) THEN unique_suggestions
    ELSE IF coord_key(all[i]) \in seen_coords
         THEN DedupFrom(all, i + 1, seen_coords, unique_suggestions, lim)
         ELSE IF Len(unique_suggestions) + 1 >= lim
              THEN Append(unique_suggestions, all[i])
              ELSE DedupFrom(all, i + 1, seen_coords \cup {coord_key(all[i])},
                             Append(unique_suggestions, all[i]), lim)

Deduplicate(all, lim) == DedupFrom(all, 1, {}, <<>>, lim)

\* The guard without its length test.
TooShort_EmptyOnly(q) == q = <<>>

\* The guard that returns [] before any provider is queried.
TooShort(q) == q = <<>> \/ Len(strip(q)) < 2

----------------------------------------------------------------------------
(* Weather fetches and the per-variable pipeline: services/weather.py,     *)
(* main.py                                                                 *)

AllColumns ==
    {"temperature_2m", "relativehumidity_2m", "shortwave_radiation", "cloudcover",
     "precipitation", "pressure_msl", "wind_speed_10m"}

\* The variable sets of fetch_historical and fetch_forecast, in request order.
variable_sets ==
    << AllColumns,
       AllColumns \ {"wind_speed_10m"},
       {"temperature_2m", "relativehumidity_2m", "shortwave_radiation", "cloudcover"},
       {"temperature_2m", "relativehumidity_2m"} >>

target_variables == <<"temperature_2m", "shortwave_radiation", "wind_speed_10m">>

\* create_ml_forecast_df trains only on at least this many clean points.
MinHistoryPoints == 48

\* What the weather provider answers to one request: an error status, a
\* timeout, an error payload, a body without hourly data, an empty time
\* array, a body that cannot be made a frame, or hourly data of some rows
\* with some values null in every column.
UpstreamWeather ==
    {[kind |-> k, rows |-> 0, nulls |-> 0] :
        k \in {"status", "timeout", "error_payload", "no_hourly", "empty_time",
               "bad_shape"}}
    \cup {[kind |-> "ok", rows |-> MinHistoryPoints, nulls |-> n] : n \in {0, 1}}

\* Acceptance of every body of a success response.
Accepted_AnyBody(up) == up.kind \notin {"status", "timeout"}

\* fetch_historical, fetch_forecast: the response passes every check before
\* the frame is returned.
Accepted(up) == up.kind = "ok" /\ up.rows > 0

\* A frame of the seven columns; a column the payload lacks holds None only.
EmptyFrame == [empty |-> TRUE, columns |-> {}, rows |-> 0, nulls |-> 0]

Frame(variables, up) ==
    [empty |-> FALSE, columns |-> variables, rows |-> up.rows, nulls |-> up.nulls]

\* len(historical_df.set_index("time")[target_column].dropna())
CleanPoints(df, column) ==
    IF df.empty \/ column \notin df.columns THEN 0 ELSE df.rows - df.nulls

\* date.today() - timedelta(days=3) - timedelta(days=days) lies before
\* date.min, which raises OverflowError: so for a million days (for any
\* today before the year 2738), not for the default 60.
DateOutOfRange(days) == days >= 1000000

\* The except clauses of get_weather_data: the status of an escaping exception.
StatusOf(exception) ==
    CASE exception = "ValueError" -> 400
      [] OTHER -> 500

\* A request the LocationRequest constructor rejects never reaches the
\* handler; the framework answers it with its request validation status.
RequestValidationStatus == 422

\* A constructor that insists on exactly one of the text and the pair.
Rejected_UnlessExactlyOne(r) ==
    Truthy(r.location) = (r.latitude # None /\ r.longitude # None)

\* LocationRequest.__init__: the constructor raises for these requests.
Rejected(r) == ~Truthy(r.location) /\ (r.latitude = None \/ r.longitude = None)

Failure(status, detail) ==
    [status |-> status, detail |-> detail, ml_forecast |-> <<>>,
     blended_forecast |-> <<>>]

NoResponse == [status |-> 0, detail |-> "pending", ml_forecast |-> <<>>,
               blended_forecast |-> <<>>]

\* Outcomes of train_local_model and of forecast_with_model.
TrainOutcomes == {"ensemble", "single", "raise"}
ForecastOutcomes == {"ok", "raise"}

\* The fallback of train_ensemble_model with the weights of an even ensemble.
train_ensemble_model_EvenWeights(outcome) ==
    IF outcome = "ensemble"
    THEN Some([rf |-> "RandomForestRegressor",
               gb |-> Some("GradientBoostingRegressor"), weights |-> <<5, 5>>])
    ELSE IF outcome = "single"
         THEN Some([rf |-> "RandomForestRegressor", gb |-> None,
                    weights |-> <<5, 5>>])
         ELSE None

\* train_ensemble_model: the models dictionary it returns, None standing for
\* the exception of its fallback.  Weights are in tenths; those of the
\* ensemble are the shares of the two training scores, even when the scores
\* are equal or their sum is not positive, which is the case modelled.
train_ensemble_model(outcome) ==
    IF outcome = "ensemble"
    THEN Some([rf |-> "RandomForestRegressor",
               gb |-> Some("GradientBoostingRegressor"), weights |-> <<5, 5>>])
    ELSE IF outcome = "single"
         THEN Some([rf |-> "RandomForestRegressor", gb |-> None,
                    weights |-> <<10, 0>>])
         ELSE None

\* create_ml_forecast_df without its try/except.
create_ml_forecast_df_Uncaught(hist, fc, column, train, predict) ==
    IF hist.empty \/ fc.empty THEN "empty"
    ELSE IF CleanPoints(hist, column) < MinHistoryPoints THEN "api"
         ELSE IF train = "raise" \/ predict = "raise" THEN "raise"
              ELSE "model"

\* create_ml_forecast_df: what the model forecast of a target column is.
create_ml_forecast_df(hist, fc, column, train, predict) ==
    IF hist.empty \/ fc.empty THEN "empty"
    ELSE IF CleanPoints(hist, column) < MinHistoryPoints THEN "api"
         ELSE IF train = "raise" \/ predict = "raise" THEN "api"
              ELSE "model"

----------------------------------------------------------------------------
(* Inputs and the initial state                                            *)

LocationInputs ==
    {None, Some(<<>>), Some(<<" ">>), Some(<<" ", "a">>), Some(<<"a", ",">>)}

CoordinateInputs ==
    {<<None, None>>, <<Some(0), None>>, <<None, Some(0)>>, <<Some(0), Some(0)>>,
     <<Some(1852046), Some(-4)>>}

HistoricalDayInputs == {60, 1000000}

ApiKeys == {None, Some(<<>>), Some(<<"k">>)}

QueryInputs == {<<>>, <<"a", " ">>, <<"a", "b">>, <<" ", "a", "b">>}

DataRequests ==
    {[location |-> l, latitude |-> c[1], longitude |-> c[2], historical_days |-> d] :
        l \in LocationInputs, c \in CoordinateInputs, d \in HistoricalDayInputs}

NoRequest ==
    [location |-> None, latitude |-> None, longitude |-> None, historical_days |-> 0]

\* No models dictionary for any target variable.
NoModels == <<None, None, None>>

\* The variables of step 4 and those of the ensemble, and their values while
\* neither runs.
conditions == <<now, current>>
ensemble ==
    <<clean_series, steps, lags, scores, models, window, predictions_rf,
      predictions_gb, step, final_predictions>>

NoConditions == now = 0 /\ current = <<>>

NoEnsemble ==
    /\ clean_series = <<>>
    /\ steps = 0
    /\ lags = 0
    /\ scores = <<>>
    /\ models = <<>>
    /\ window = <<>>
    /\ predictions_rf = <<>>
    /\ predictions_gb = <<>>
    /\ step = 0
    /\ final_predictions = <<>>

NoTargets == [i \in 1..Len(target_variables) |-> "none"]

Init ==
    /\ endpoint \in {"data", "autocomplete"}
    /\ GOOGLE_MAPS_API_KEY \in ApiKeys
    /\ IF endpoint = "data"
       THEN request \in DataRequests /\ query = <<>> /\ limit = 0
       ELSE request = NoRequest /\ query \in QueryInputs /\ limit \in 1..MaxLimit
    /\ pc = "start"
    /\ variation = 0
    /\ geocoder = 0
    /\ log = <<>>
    /\ lat = None
    /\ lon = None
    /\ geo_data = None
    /\ attempt = 0
    /\ historical_df = EmptyFrame
    /\ forecast_df = EmptyFrame
    /\ target = 0
    /\ ml_forecasts = NoTargets
    /\ model = NoModels
    /\ blended_df = NoTargets
    /\ response = NoResponse
    /\ all_suggestions = <<>>
    /\ suggestions = <<>>
    /\ NoConditions
    /\ NoEnsemble

\* Whether the function that made a request sleeps before it returns: only
\* the functions of Nominatim have a time.sleep, which an exception of the
\* request or of the parsing skips; the forward and the reverse function
\* return a result before they reach it.
Delay(service, provider, up, ok) ==
    /\ provider = "Nominatim"
    /\ up.kind # "error"
    /\ service \in {"geocode", "reverse"} => ~ok

\* An outbound HTTP request, whether the function that made it returned a
\* result, and whether it slept after the request.
Call(service, provider, arg, ok, delay) ==
    [service |-> service, provider |-> provider, arg |-> arg, ok |-> ok,
     delay |-> delay]

\* The paid provider's functions return before any request without a key.
MakesRequest(provider, api_key) == provider # "Google Maps" \/ Truthy(api_key)

Logged(calls, provider, api_key, call) ==
    IF MakesRequest(provider, api_key) THEN Append(calls, call) ELSE calls

inputs == <<endpoint, request, GOOGLE_MAPS_API_KEY, query, limit>>
auto == <<all_suggestions, suggestions>>
pipeline ==
    <<attempt, historical_df, forecast_df, target, ml_forecasts, model, blended_df>>

\* The steps of get_weather_data with the two fetches the other way round.
Stages_ForecastFirst ==
    <<"resolve", "forecast", "historical", "train", "blend", "done">>

\* The steps of get_weather_data in the order of its statements: step 1,
\* step 2, step 3, step 5, step 6, and the return after step 7.
Stages == <<"resolve", "historical", "forecast", "train", "blend", "done">>

\* The position of the handler when a step has completed.
StageAfter(stage) ==
    Stages[(CHOOSE i \in 1..Len(Stages) : Stages[i] = stage) + 1]

----------------------------------------------------------------------------
(* POST /api/data: get_weather_data                                        *)

\* The request is parsed into a LocationRequest before the handler runs.
ParseRequest ==
    /\ endpoint = "data" /\ pc = "start"
    /\ IF Rejected(request)
       THEN /\ response' = Failure(RequestValidationStatus, "validation")
            /\ pc' = "done"
       ELSE /\ response' = response
            /\ pc' = "resolve"
    /\ UNCHANGED <<conditions, ensemble>>
    /\ UNCHANGED <<inputs, auto, pipeline, variation, geocoder, log, lat, lon, geo_data>>

\* Step 1: coordinates first, else the location text, else a ValueError.
\* geocode_location raises ValueError for a text that is blank.
ResolveLocation ==
    /\ pc = "resolve"
    /\ IF request.latitude # None /\ request.longitude # None
       THEN /\ lat' = request.latitude
            /\ lon' = request.longitude
            /\ pc' = "reverse"
            /\ geocoder' = 1
            /\ UNCHANGED <<variation, response>>
       ELSE IF Truthy(request.location)
            THEN IF strip(request.location[1]) = <<>>
                 THEN /\ response' = Failure(StatusOf("ValueError"), "empty_location")
                      /\ pc' = "done"
                      /\ UNCHANGED <<lat, lon, variation, geocoder>>
                 ELSE /\ pc' = "geocode"
                      /\ variation' = 1
                      /\ geocoder' = 1
                      /\ UNCHANGED <<lat, lon, response>>
            ELSE /\ response' = Failure(StatusOf("ValueError"), "missing_input")
                 /\ pc' = "done"
                 /\ UNCHANGED <<lat, lon, variation, geocoder>>
    /\ log' = <<>>
    /\ UNCHANGED <<conditions, ensemble>>
    /\ UNCHANGED <<inputs, auto, pipeline, geo_data>>

\* geocode_location: one pass of the inner loop, the call of one provider
\* with one variation.  The first result is returned; when the last provider
\* has failed for the last variation, ValueError with the guidance text.
GeocodeAttempt ==
    /\ pc = "geocode"
    /\ \E up \in UpstreamGeo :
        LET variations == _try_with_variations(strip(request.location[1]))
            geocoders == ForwardGeocoders(GOOGLE_MAPS_API_KEY)
            result == CallGeocoder(geocoders[geocoder], variations[variation],
                                   GOOGLE_MAPS_API_KEY, up)
        IN  /\ log' = Logged(log, geocoders[geocoder], GOOGLE_MAPS_API_KEY,
                              Call("geocode", geocoders[geocoder],
                                   variations[variation], result # None,
                                   Delay("geocode", geocoders[geocoder], up,
                                         result # None)))
            /\ IF result # None
               THEN /\ geo_data' = result
                    /\ lat' = Some(result[1].latitude)
                    /\ lon' = Some(result[1].longitude)
                    /\ pc' = StageAfter("resolve")
                    /\ variation' = 0
                    /\ geocoder' = 0
                    /\ UNCHANGED response
               ELSE LET next == NextGeocodeAttempt(variation, geocoder,
                                                   variations, geocoders)
                    IN  IF next # <<0, 0>>
                        THEN /\ variation' = next[1]
                             /\ geocoder' = next[2]
                             /\ UNCHANGED <<pc, geo_data, lat, lon, response>>
                        ELSE /\ response' = Failure(StatusOf("ValueError"), "not_found")
                             /\ pc' = "done"
                             /\ variation' = 0
                             /\ geocoder' = 0
                             /\ UNCHANGED <<geo_data, lat, lon>>
    /\ UNCHANGED <<conditions, ensemble>>
    /\ UNCHANGED <<inputs, auto, pipeline>>

\* reverse_geocode: one pass of the loop, the call of one provider.  The
\* first result is returned; after the last provider the coordinates
\* themselves are the name.  The handler builds geo_data from what it returns.
ReverseAttempt ==
    /\ pc = "reverse"
    /\ \E up \in UpstreamReverse :
        LET geocoders == ReverseGeocoders(GOOGLE_MAPS_API_KEY)
            result == CallReverseGeocoder(geocoders[geocoder], lat[1], lon[1],
                                          GOOGLE_MAPS_API_KEY, up)
        IN  /\ log' = Logged(log, geocoders[geocoder], GOOGLE_MAPS_API_KEY,
                              Call("reverse", geocoders[geocoder],
                                   <<lat[1], lon[1]>>, result # None,
                                   Delay("reverse", geocoders[geocoder], up,
                                         result # None)))
            /\ IF result # None
               THEN /\ geo_data' = Some(GeoDataFromReverse(result[1], lat[1], lon[1]))
                    /\ pc' = StageAfter("resolve")
                    /\ geocoder' = 0
               ELSE IF geocoder < Len(geocoders)
                    THEN /\ geocoder' = geocoder + 1
                         /\ UNCHANGED <<pc, geo_data>>
                    ELSE /\ geo_data' = Some(GeoDataFromReverse(
                                                ReverseFallback(lat[1], lon[1]),
                                                lat[1], lon[1]))
                         /\ pc' = StageAfter("resolve")
                         /\ geocoder' = 0
    /\ UNCHANGED <<conditions, ensemble>>
    /\ UNCHANGED <<inputs, auto, pipeline, variation, lat, lon, response>>

\* The handler without the try/except around fetch_historical.
LocallyCaught_NotTheHistoricalFetch ==
    {"create_ml_forecast_df", "blend_ml_and_api"}

\* The stages whose exceptions the handler (or the stage itself) catches
\* and replaces by a degraded result; any other exception reaches the except
\* clauses at the end of get_weather_data.
LocallyCaught ==
    {"fetch_historical", "create_ml_forecast_df", "blend_ml_and_api"}

\* The response when an exception of a stage is raised.
Escaped(stage, exception) ==
    IF stage \in LocallyCaught THEN NoResponse
    ELSE Failure(StatusOf(exception), stage)

\* Step 2, fetch_historical: computing the dates, then one request per
\* variable set until one is accepted; an empty frame when none is, and
\* when the function raises.
FetchHistorical ==
    /\ pc = "historical"
    /\ IF attempt = 0 /\ DateOutOfRange(request.historical_days)
       THEN /\ log' = <<>>
            /\ historical_df' = EmptyFrame
            /\ response' = Escaped("fetch_historical", "OverflowError")
            /\ pc' = IF response' = NoResponse THEN StageAfter("historical") ELSE "done"
            /\ UNCHANGED attempt
       ELSE \E up \in UpstreamWeather :
            /\ log' = (IF attempt = 0 THEN <<>> ELSE log)
                      \o <<Call("archive", "Open-Meteo", attempt + 1, Accepted(up), FALSE)>>
            /\ IF Accepted(up)
               THEN /\ historical_df' = Frame(variable_sets[attempt + 1], up)
                    /\ attempt' = 0
                    /\ pc' = StageAfter("historical")
               ELSE IF attempt + 1 < Len(variable_sets)
                    THEN /\ attempt' = attempt + 1
                         /\ UNCHANGED <<historical_df, pc>>
                    ELSE /\ historical_df' = EmptyFrame
                         /\ attempt' = 0
                         /\ pc' = StageAfter("historical")
            /\ UNCHANGED response
    /\ UNCHANGED <<conditions, ensemble>>
    /\ UNCHANGED <<inputs, auto, variation, geocoder, lat, lon, geo_data,
                   forecast_df, target, ml_forecasts, model, blended_df>>

\* Step 3, fetch_forecast: one request per variable set until one is
\* accepted; the handler raises ValueError for the empty frame returned when
\* none is.
FetchForecast ==
    /\ pc = "forecast"
    /\ \E up \in UpstreamWeather :
        /\ log' = (IF attempt = 0 THEN <<>> ELSE log)
                  \o <<Call("forecast", "Open-Meteo", attempt + 1, Accepted(up), FALSE)>>
        /\ IF Accepted(up)
           THEN /\ forecast_df' = Frame(variable_sets[attempt + 1], up)
                /\ attempt' = 0
                /\ target' = 1
                /\ pc' = StageAfter("forecast")
                /\ UNCHANGED response
           ELSE IF attempt + 1 < Len(variable_sets)
                THEN /\ attempt' = attempt + 1
                     /\ UNCHANGED <<forecast_df, target, pc, response>>
                ELSE /\ forecast_df' = EmptyFrame
                     /\ attempt' = 0
                     /\ response' = Failure(StatusOf("ValueError"), "forecast")
                     /\ pc' = "done"
                     /\ UNCHANGED target
    /\ UNCHANGED <<conditions, ensemble>>
    /\ UNCHANGED <<inputs, auto, variation, geocoder, lat, lon, geo_data,
                   historical_df, ml_forecasts, model, blended_df>>

\* Step 5: create_ml_forecast_df for one target variable.
TrainTarget ==
    /\ pc = "train"
    /\ \E train \in TrainOutcomes, predict \in ForecastOutcomes :
        LET ml == create_ml_forecast_df(historical_df, forecast_df,
                                        target_variables[target], train, predict)
        IN  IF ml = "raise"
            THEN /\ response' = Failure(StatusOf("Exception"), "create_ml_forecast_df")
                 /\ pc' = "done"
                 /\ UNCHANGED <<ml_forecasts, model, blended_df, target>>
            ELSE /\ ml_forecasts' = [ml_forecasts EXCEPT ![target] = ml]
                 /\ model' = [model EXCEPT ![target] =
                                  IF ml = "model" THEN train_ensemble_model(train)
                                  ELSE None]
                 /\ IF target < Len(target_variables)
                    THEN /\ target' = target + 1
                         /\ UNCHANGED <<pc, blended_df>>
                    ELSE /\ target' = 1
                         /\ blended_df' = [i \in 1..Len(target_variables) |-> "api"]
                         /\ pc' = StageAfter("train")
                 /\ UNCHANGED response
    /\ UNCHANGED <<conditions, ensemble>>
    /\ UNCHANGED <<inputs, auto, variation, geocoder, log, lat, lon, geo_data,
                   attempt, historical_df, forecast_df>>

\* Step 6 for one target variable: the blended column is the blend when
\* blend_ml_and_api and the assignment succeed, the API forecast when they
\* raise or when there is no model forecast.
BlendOutcomes == {"ok", "raise"}

Blend(ml, outcome) ==
    IF ml \in {"none", "empty"} THEN "api"
    ELSE IF outcome = "raise" THEN "api" ELSE "blend"

\* Step 7: the model forecast of the response is the API forecast with the
\* columns of the non-empty model forecasts replaced.
Assemble(ml, blended) ==
    [status |-> 200, detail |-> "ok",
     ml_forecast |-> [i \in 1..Len(target_variables) |->
                         IF ml[i] \in {"none", "empty"} THEN "api" ELSE ml[i]],
     blended_forecast |-> blended]

\* Step 6 for one target variable and, after the last one, step 7.
BlendTarget ==
    /\ pc = "blend"
    /\ \E outcome \in BlendOutcomes :
        LET b == Blend(ml_forecasts[target], outcome)
        IN  IF b = "raise"
            THEN /\ response' = Failure(StatusOf("Exception"), "blend_ml_and_api")
                 /\ pc' = "done"
                 /\ UNCHANGED <<blended_df, target>>
            ELSE /\ blended_df' = [blended_df EXCEPT ![target] = b]
                 /\ IF target < Len(target_variables)
                    THEN /\ target' = target + 1
                         /\ UNCHANGED <<pc, response>>
                    ELSE /\ response' = Assemble(ml_forecasts, blended_df')
                         /\ pc' = StageAfter("blend")
                         /\ UNCHANGED target
    /\ UNCHANGED <<conditions, ensemble>>
    /\ UNCHANGED <<inputs, auto, variation, geocoder, log, lat, lon, geo_data,
                   attempt, historical_df, forecast_df, ml_forecasts, model>>

----------------------------------------------------------------------------
(* get_autocomplete_suggestions                                            *)

\* The early stop one suggestion late.
RoomLeft_Inclusive(all, lim) == Len(all) <= lim

\* Whether the next provider is queried: len(all_suggestions) < limit.
RoomLeft(all, lim) == Len(all) < lim

\* The guard, then the query of Open-Meteo.
AutocompleteOpenMeteo ==
    /\ endpoint = "autocomplete" /\ pc = "start"
    /\ IF TooShort(query)
       THEN /\ suggestions' = <<>>
            /\ pc' = "done"
            /\ UNCHANGED <<all_suggestions, log>>
       ELSE \E up \in UpstreamAutocomplete :
            /\ all_suggestions' = autocomplete_openmeteo(strip(query), limit, up)
            /\ log' = <<Call("autocomplete", "Open-Meteo", strip(query),
                             all_suggestions' # <<>>, FALSE)>>
            /\ pc' = "nominatim"
            /\ UNCHANGED suggestions
    /\ UNCHANGED <<conditions, ensemble>>
    /\ UNCHANGED <<inputs, pipeline, variation, geocoder, lat, lon, geo_data, response>>

\* The query of Nominatim, when there is room left.
AutocompleteNominatim ==
    /\ pc = "nominatim"
    /\ IF RoomLeft(all_suggestions, limit)
       THEN \E up \in UpstreamAutocomplete :
            /\ all_suggestions' =
                   all_suggestions \o autocomplete_nominatim(strip(query), limit, up)
            /\ log' = Append(log, Call("autocomplete", "Nominatim", strip(query),
                                        all_suggestions' # all_suggestions,
                                        Delay("autocomplete", "Nominatim", up,
                                              all_suggestions' # all_suggestions)))
       ELSE UNCHANGED <<all_suggestions, log>>
    /\ pc' = "google"
    /\ UNCHANGED <<conditions, ensemble>>
    /\ UNCHANGED <<inputs, pipeline, variation, geocoder, lat, lon, geo_data,
                   response, suggestions>>

\* The query of the paid provider, when a key is configured and there is
\* room left; then the deduplication and the return.
AutocompleteGoogle ==
    /\ pc = "google"
    /\ IF Truthy(GOOGLE_MAPS_API_KEY) /\ RoomLeft(all_suggestions, limit)
       THEN \E up \in UpstreamAutocomplete :
            /\ all_suggestions' =
                   all_suggestions \o autocomplete_google_maps(
                       strip(query), GOOGLE_MAPS_API_KEY, limit, up)
            /\ log' = Logged(log, "Google Maps", GOOGLE_MAPS_API_KEY,
                             Call("autocomplete", "Google Maps", strip(query),
                                  all_suggestions' # all_suggestions, FALSE))
       ELSE UNCHANGED <<all_suggestions, log>>
    /\ suggestions' = Deduplicate(all_suggestions', limit)
    /\ pc' = "done"
    /\ UNCHANGED <<conditions, ensemble>>
    /\ UNCHANGED <<inputs, pipeline, variation, geocoder, lat, lon, geo_data, response>>

----------------------------------------------------------------------------

Next ==
    \/ ParseRequest
    \/ ResolveLocation
    \/ GeocodeAttempt
    \/ ReverseAttempt
    \/ FetchHistorical
    \/ FetchForecast
    \/ TrainTarget
    \/ BlendTarget
    \/ AutocompleteOpenMeteo
    \/ AutocompleteNominatim
    \/ AutocompleteGoogle

Spec == Init /\ [][Next]_vars

----------------------------------------------------------------------------
(* Python floats.  A float is a binary64 number: a sign, and a magnitude   *)
(* m * 2^e whose significand m has at most 53 bits.  The significand is    *)
(* kept as a sequence of bits, lowest first, and in lowest terms (m odd),  *)
(* so that equal numbers are equal records.  Every operation rounds its    *)
(* exact result to 53 bits, ties to even.  The numbers used are far from   *)
(* the overflow and the subnormal range, which are left out.  NaN, the     *)
(* value of a missing cell, is the one record beyond the range.            *)

\* Bits of the significand of a binary64 number.
Precision == 53

\* A natural number without its zero bits at the top.
RECURSIVE Trim(_)
Trim(a) ==
    IF a = <<>> THEN <<>>
    ELSE IF a[Len(a)] = 0 THEN Trim(SubSeq(a, 1, Len(a) - 1)) ELSE a

Bit(a, i) == IF i \in 1..Len(a) THEN a[i] ELSE 0

\* The bits of the number whose i-th binary column holds columns[i], which
\* may be any integer: the carries are propagated upwards.
RECURSIVE Carried(_, _, _)
Carried(columns, i, carry) ==
    IF i > Len(columns)
    THEN IF carry = 0 THEN <<>>
         ELSE <<carry % 2>> \o Carried(columns, i, carry \div 2)
    ELSE <<(columns[i] + carry) % 2>>
         \o Carried(columns, i + 1, (columns[i] + carry) \div 2)

BitsAdd(a, b) ==
    Carried([i \in 1..(IF Len(a) < Len(b) THEN Len(b) ELSE Len(a)) |->
                Bit(a, i) + Bit(b, i)], 1, 0)

\* a - b for a >= b
BitsSubtract(a, b) ==
    Trim(Carried([i \in 1..Len(a) |-> a[i] - Bit(b, i)], 1, 0))

BitsLess(a, b) ==
    IF Len(a) # Len(b) THEN Len(a) < Len(b)
    ELSE \E i \in 1..Len(a) :
            /\ a[i] < b[i]
            /\ \A j \in (i + 1)..Len(a) : a[j] = b[j]

\* a * 2^k
ShiftLeft(a, k) == IF a = <<>> THEN <<>> ELSE [i \in 1..k |-> 0] \o a

\* The number that the n bits of a from the i-th on spell.
RECURSIVE Limb(_, _, _)
Limb(a, i, n) == IF n = 0 THEN 0 ELSE Bit(a, i) + 2 * Limb(a, i + 1, n - 1)

\* a in base 2^12, lowest digit first.
Limbs(a) == [k \in 1..((Len(a) + 11) \div 12) |-> Limb(a, 12 * (k - 1) + 1, 12)]

\* The sum of the products x[i] * y[j] with i + j = k + 1, from i on.
RECURSIVE ColumnSum(_, _, _, _)
ColumnSum(x, y, k, i) ==
    IF i > Len(x) THEN 0
    ELSE (IF k - i + 1 \in 1..Len(y) THEN x[i] * y[k - i + 1] ELSE 0)
         + ColumnSum(x, y, k, i + 1)

\* The digits in base 2^12 of the number whose k-th column holds columns[k].
RECURSIVE CarriedLimbs(_, _, _)
CarriedLimbs(columns, k, carry) ==
    IF k > Len(columns)
    THEN IF carry = 0 THEN <<>>
         ELSE <<carry % 4096>> \o CarriedLimbs(columns, k, carry \div 4096)
    ELSE <<(columns[k] + carry) % 4096>>
         \o CarriedLimbs(columns, k + 1, (columns[k] + carry) \div 4096)

\* a * b by long multiplication in base 2^12.
BitsMultiply(a, b) ==
    IF a = <<>> \/ b = <<>> THEN <<>>
    ELSE LET x == Limbs(a)
             y == Limbs(b)
             limbs == CarriedLimbs([k \in 1..(Len(x) + Len(y) - 1) |->
                                       ColumnSum(x, y, k, 1)], 1, 0)
         IN  Trim([i \in 1..(12 * Len(limbs)) |->
                      (limbs[((i - 1) \div 12) + 1] \div (2 ^ ((i - 1) % 12))) % 2])

Zero == [sign |-> 0, m |-> <<>>, e |-> 0]

NaN == [sign |-> 0, m |-> <<1>>, e |-> 1024]

\* The float of sign * m * 2^e for m of at most 53 bits: in lowest terms.
RECURSIVE LowestTerms(_, _, _)
LowestTerms(sign, m, e) ==
    IF m = <<>> THEN Zero
    ELSE IF m[1] = 0 THEN LowestTerms(sign, Tail(m), e + 1)
         ELSE [sign |-> sign, m |-> m, e |-> e]

\* The float nearest to sign * m * 2^e, ties to the even significand.
RoundToFloat(sign, m, e) ==
    IF Len(m) <= Precision THEN LowestTerms(sign, m, e)
    ELSE LET k == Len(m) - Precision
             q == SubSeq(m, k + 1, Len(m))
             more == m[k] = 1 /\ \E i \in 1..(k - 1) : m[i] = 1
             up == m[k] = 1 /\ (more \/ q[1] = 1)
         IN  LowestTerms(sign, IF up THEN BitsAdd(q, <<1>>) ELSE q, e + k)

\* x * y
FloatMultiply(x, y) ==
    IF x = NaN \/ y = NaN THEN NaN
    ELSE IF x.m = <<>> \/ y.m = <<>> THEN Zero
    ELSE RoundToFloat((x.sign + y.sign) % 2, BitsMultiply(x.m, y.m), x.e + y.e)

\* x + y
FloatAdd(x, y) ==
    IF x = NaN \/ y = NaN THEN NaN
    ELSE IF x.m = <<>> THEN y
    ELSE IF y.m = <<>> THEN x
    ELSE LET e == Min(x.e, y.e)
             a == ShiftLeft(x.m, x.e - e)
             b == ShiftLeft(y.m, y.e - e)
         IN  IF x.sign = y.sign THEN RoundToFloat(x.sign, BitsAdd(a, b), e)
             ELSE IF a = b THEN Zero
             ELSE IF BitsLess(a, b)
                  THEN RoundToFloat(y.sign, BitsSubtract(b, a), e)
                  ELSE RoundToFloat(x.sign, BitsSubtract(a, b), e)

\* x - y
FloatSubtract(x, y) ==
    FloatAdd(x, IF y = NaN THEN NaN ELSE [y EXCEPT !.sign = 1 - y.sign])

\* r less d * 2^s when it is not below it, and the bit of the quotient that
\* tells which.
Reduce(r, d, s) ==
    IF BitsLess(r, ShiftLeft(d, s)) THEN r ELSE BitsSubtract(r, ShiftLeft(d, s))

QuotientBit(r, d, s) == IF BitsLess(r, ShiftLeft(d, s)) THEN 0 ELSE 1

\* Long division of n by d, four bits of n at a time from the i-th down, rem
\* being what the bits above have left, which is below d: whether a
\* remainder is left, then the bits of the quotient, lowest first.
RECURSIVE DivideFrom(_, _, _, _)
DivideFrom(n, d, i, rem) ==
    IF i = 0 THEN <<IF rem = <<>> THEN 0 ELSE 1>>
    ELSE LET r4 == Trim(<<n[i - 3], n[i - 2], n[i - 1], n[i]>> \o rem)
             r3 == Reduce(r4, d, 3)
             r2 == Reduce(r3, d, 2)
             r1 == Reduce(r2, d, 1)
             r0 == Reduce(r1, d, 0)
         IN  IF BitsLess(r0, d)
             THEN DivideFrom(n, d, i - 4, r0)
                  \o <<QuotientBit(r1, d, 0), QuotientBit(r2, d, 1),
                       QuotientBit(r3, d, 2), QuotientBit(r4, d, 3)>>
             ELSE <<>>

\* x / y for y other than zero: the quotient of the significands to at
\* least two bits more than the precision, and a last bit for what remains.
FloatDivide(x, y) ==
    IF x = NaN \/ y = NaN THEN NaN
    ELSE IF x.m = <<>> THEN Zero
    ELSE LET least == Precision + 3 + Len(y.m) - Len(x.m)
             k == least + ((4 - ((least + Len(x.m)) % 4)) % 4)
             n == ShiftLeft(x.m, k)
         IN  RoundToFloat((x.sign + y.sign) % 2,
                          Trim(DivideFrom(n, y.m, Len(n), <<>>)),
                          x.e - y.e - k - 1)

\* x < y
FloatLess(x, y) ==
    LET difference == FloatSubtract(x, y)
    IN  difference # NaN /\ difference.m # <<>> /\ difference.sign = 1

\* The bits of a hexadecimal numeral, its digits given highest first.
RECURSIVE HexBits(_)
HexBits(digits) ==
    IF digits = <<>> THEN <<>>
    ELSE LET d == digits[Len(digits)]
         IN  <<d % 2, (d \div 2) % 2, (d \div 4) % 2, d \div 8>>
             \o HexBits(SubSeq(digits, 1, Len(digits) - 1))

\* The float whose float.hex() is (-)0x<d1>.<d2...>p<p>.
Float(sign, digits, p) ==
    LowestTerms(sign, Trim(HexBits(digits)), p - 4 * (Len(digits) - 1))

----------------------------------------------------------------------------
(* Frames, row by row.  The specification Spec follows a request through   *)
(* its providers and keeps of each frame only a summary.  The definitions  *)
(* below hold the frames themselves: a frame is the sequence of its rows,  *)
(* a row the timestamp and the seven cells, a cell a float.  A timestamp   *)
(* is a number of hours since midnight of the first day.                   *)

\* The weight of the model forecast in step 6: alpha=0.6.
Alpha == Float(0, <<1, 3, 3, 3, 3, 3, 3, 3, 3, 3, 3, 3, 3, 3>>, -1)

One == Float(0, <<1>>, 0)

\* The body of a success response without error: hourly.time, the columns
\* hourly has, and the array each of them holds.
Hourly(time, columns, values) ==
    [kind |-> "ok", rows |-> Len(time), time |-> time, columns |-> columns,
     values |-> values]

\* A response fetch_* rejects before it looks at the rows.
NoHourly ==
    [kind |-> "status", rows |-> 0, time |-> <<>>, columns |-> {}, values |-> <<>>]

\* pd.DataFrame(df_dict) raises ValueError when an array is not as long as
\* hourly.time; the arrays of the absent columns are made as long.
Ragged(hourly) ==
    hourly.columns # {} /\ Len(hourly.values) # Len(hourly.time)

\* A null of the payload read as the number 0.
Number_ZeroForNull(v) == IF v = None THEN Zero ELSE v[1]

\* A null of the payload is a missing cell.
Number(v) == IF v = None THEN NaN ELSE v[1]

\* df_dict and pd.DataFrame(df_dict): one row per entry of hourly.time, with
\* the seven columns; a column hourly lacks is [None] * len(hourly["time"]).
Rows(hourly) ==
    [i \in 1..Len(hourly.time) |->
        [time |-> hourly.time[i],
         cells |-> [c \in AllColumns |->
                       IF c \in hourly.columns THEN Number(hourly.values[i])
                       ELSE NaN]]]

\* dropna on every column.
dropna_AnyColumn(rows) ==
    SelectSeq(rows, LAMBDA r : r.time # None
                               /\ \A c \in DOMAIN r.cells : r.cells[c] # NaN)

\* df.dropna(subset=["time"])
dropna(rows) == SelectSeq(rows, LAMBDA r : r.time # None)

Remove(s, i) == SubSeq(s, 1, i - 1) \o SubSeq(s, i + 1, Len(s))

\* df.sort_values("time").reset_index(drop=True): the rows in ascending order
\* of time.  The default sort is not stable, so rows of equal time come in
\* any order: the operator is the set of the frames the sort may give.
RECURSIVE sort_values(_)
sort_values(rows) ==
    IF rows = <<>> THEN {<<>>}
    ELSE LET first == {i \in 1..Len(rows) :
                          \A j \in 1..Len(rows) : rows[i].time[1] <= rows[j].time[1]}
         IN  UNION {{<<[rows[i] EXCEPT !.time = rows[i].time[1]]>> \o rest :
                        rest \in sort_values(Remove(rows, i))} : i \in first}

\* The frames fetch_* may return for an accepted body: none when the frame
\* cannot be built or is empty once the rows without time are dropped, in
\* which case the next variable set is tried.
hourly_frames(hourly) ==
    IF Ragged(hourly) THEN {}
    ELSE IF dropna(Rows(hourly)) = <<>> THEN {}
         ELSE sort_values(dropna(Rows(hourly)))

\* df[column].values and df["time"].values
Column(df, column) == [i \in 1..Len(df) |-> df[i].cells[column]]
Times(df) == [i \in 1..Len(df) |-> df[i].time]

\* len(historical_series.dropna())
CleanCount(values) == Len(SelectSeq(values, LAMBDA v : v # NaN))

\* A series: its index, whether the index is timezone-aware, its values.
TimeSeries(tz, time, values) == [tz |-> tz, time |-> time, values |-> values]

\* pd.DataFrame(columns=["time", target_column])
EmptyForecast == [kind |-> "empty", tz |-> "UTC", time |-> <<>>, values |-> <<>>]

\* forecast_df[["time", target_column]].copy()
ApiForecast(fc, column) ==
    [kind |-> "api", tz |-> "UTC", time |-> Times(fc), values |-> Column(fc, column)]

\* create_ml_forecast_df on the rows: the frame of the model forecast of a
\* target column.  forecast_df["time"].values drops the timezone of the
\* timestamps; predictions are those of forecast_with_model, one per row of
\* the forecast.
ml_forecast_df(hist, fc, column, train, predict, predictions) ==
    IF hist = <<>> \/ fc = <<>> THEN EmptyForecast
    ELSE IF CleanCount(Column(hist, column)) < MinHistoryPoints
         THEN ApiForecast(fc, column)
         ELSE IF train = "raise" \/ predict = "raise"
              THEN ApiForecast(fc, column)
              ELSE [kind |-> "model", tz |-> "naive", time |-> Times(fc),
                    values |-> predictions]

HasDuplicates(time) ==
    \E i, j \in 1..Len(time) : i # j /\ time[i] = time[j]

\* The elements of a set of timestamps in ascending order.
RECURSIVE Ascending(_)
Ascending(S) ==
    IF S = {} THEN <<>>
    ELSE LET least == CHOOSE x \in S : \A y \in S : x <= y
         IN  <<least>> \o Ascending(S \ {least})

\* A column of nulls only is a column of None objects, on which arithmetic
\* raises TypeError; a column with a number in it is a column of floats.
ObjectDtype(values) ==
    values # <<>> /\ \A i \in 1..Len(values) : values[i] = NaN

\* series.reindex(common_time), for an index without duplicates.
Reindex(series, common_time) ==
    [k \in 1..Len(common_time) |->
        series.values[CHOOSE i \in 1..Len(series.time) :
                          series.time[i] = common_time[k]]]

Raised == [raised |-> TRUE, time |-> <<>>, values |-> <<>>]

\* blend_ml_and_api with the two weights the other way round.
blend_ml_and_api_WeightsSwapped(ml_series, api_series, alpha, outcome) ==
    IF ml_series.tz # api_series.tz
    THEN IF outcome = "raise" THEN Raised
         ELSE [raised |-> FALSE, time |-> <<>>, values |-> <<>>]
    ELSE LET same == /\ Len(ml_series.time) = Len(api_series.time)
                     /\ ml_series.time = api_series.time
             common_time ==
                 IF same THEN ml_series.time
                 ELSE Ascending(Range(ml_series.time) \cap Range(api_series.time))
             ml_aligned == IF same THEN ml_series.values
                           ELSE Reindex(ml_series, common_time)
             api_aligned == IF same THEN api_series.values
                            ELSE Reindex(api_series, common_time)
         IN  IF ~same /\ (HasDuplicates(ml_series.time)
                          \/ HasDuplicates(api_series.time))
             THEN Raised
             ELSE IF ObjectDtype(ml_aligned) \/ ObjectDtype(api_aligned)
                  THEN Raised
                  ELSE [raised |-> FALSE, time |-> common_time,
                        values |-> [i \in 1..Len(common_time) |->
                            FloatAdd(FloatMultiply(FloatSubtract(One, alpha),
                                                   ml_aligned[i]),
                                     FloatMultiply(alpha, api_aligned[i]))]]

\* blend_ml_and_api: the blended series, or that the function raises.  An
\* index with a timezone equals no index without one: the two are compared
\* or intersected to nothing, or the library refuses (outcome "raise").
\* Without that, the indexes are intersected and sorted unless they are
\* equal element by element; reindex raises on duplicate labels.
blend_ml_and_api(ml_series, api_series, alpha, outcome) ==
    IF ml_series.tz # api_series.tz
    THEN IF outcome = "raise" THEN Raised
         ELSE [raised |-> FALSE, time |-> <<>>, values |-> <<>>]
    ELSE LET same == /\ Len(ml_series.time) = Len(api_series.time)
                     /\ ml_series.time = api_series.time
             common_time ==
                 IF same THEN ml_series.time
                 ELSE Ascending(Range(ml_series.time) \cap Range(api_series.time))
             ml_aligned == IF same THEN ml_series.values
                           ELSE Reindex(ml_series, common_time)
             api_aligned == IF same THEN api_series.values
                            ELSE Reindex(api_series, common_time)
         IN  IF ~same /\ (HasDuplicates(ml_series.time)
                          \/ HasDuplicates(api_series.time))
             THEN Raised
             ELSE IF ObjectDtype(ml_aligned) \/ ObjectDtype(api_aligned)
                  THEN Raised
                  ELSE [raised |-> FALSE, time |-> common_time,
                        values |-> [i \in 1..Len(common_time) |->
                            FloatAdd(FloatMultiply(alpha, ml_aligned[i]),
                                     FloatMultiply(FloatSubtract(One, alpha),
                                                   api_aligned[i]))]]

\* An assignment that writes the values into every column of the frame.
WithColumn_EveryColumn(df, column, values) ==
    [i \in 1..Len(df) |->
        [df[i] EXCEPT !.cells = [c \in DOMAIN df[i].cells |-> values[i]]]]

\* df[column] = values
WithColumn(df, column, values) ==
    [i \in 1..Len(df) |-> [df[i] EXCEPT !.cells[column] = values[i]]]

\* Step 6 for one target variable: the column of blended_df.  The column of
\* the API forecast stays when there is no model forecast, when
\* blend_ml_and_api raises, and when the assignment of a series of another
\* length raises.
blended_column(fc, ml, column, outcome) ==
    IF ml.kind = "empty" THEN Column(fc, column)
    ELSE LET blended_series ==
                 blend_ml_and_api(TimeSeries(ml.tz, ml.time, ml.values),
                                  TimeSeries("UTC", Times(fc), Column(fc, column)),
                                  Alpha, outcome)
         IN  IF blended_series.raised \/ Len(blended_series.values) # Len(fc)
             THEN Column(fc, column)
             ELSE blended_series.values

\* Step 7, ml_forecast_combined: the API forecast with the columns of the
\* non-empty model forecasts replaced.
RECURSIVE ml_forecast_combined(_, _, _)
ml_forecast_combined(fc, ml, i) ==
    IF i = 0 THEN fc
    ELSE LET df == ml_forecast_combined(fc, ml, i - 1)
         IN  IF ml[i].kind = "empty" THEN df
             ELSE WithColumn(df, target_variables[i], ml[i].values)

\* Timestamp.isoformat(): the day and the hour of the day.
isoformat(t) == <<t \div 24, t % 24>>

\* dataframe_to_timeseries: one TimeSeriesPoint per row, in the order of the
\* rows; a missing cell is None.
dataframe_to_timeseries(df) ==
    [i \in 1..Len(df) |->
        [time |-> isoformat(df[i].time),
         values |-> [c \in AllColumns |->
                        IF df[i].cells[c] # NaN THEN Some(df[i].cells[c]) ELSE None]]]

\* A response whose model forecast is made of the model forecast frames
\* alone, which are empty when the history is.
DataResponse_ModelFramesAlone(hist, fc, ml, blended) ==
    [status |-> 200, detail |-> "ok",
     historical |-> dataframe_to_timeseries(hist),
     api_forecast |-> dataframe_to_timeseries(fc),
     ml_forecast |->
        IF \A i \in 1..Len(ml) : ml[i].kind = "empty" THEN <<>>
        ELSE dataframe_to_timeseries(
                ml_forecast_combined(fc, ml, Len(target_variables))),
     blended_forecast |-> dataframe_to_timeseries(blended)]

\* The DataResponse of step 7.
DataResponse(hist, fc, ml, blended) ==
    [status |-> 200, detail |-> "ok",
     historical |-> dataframe_to_timeseries(hist),
     api_forecast |-> dataframe_to_timeseries(fc),
     ml_forecast |->
        dataframe_to_timeseries(ml_forecast_combined(fc, ml, Len(target_variables))),
     blended_forecast |-> dataframe_to_timeseries(blended)]

----------------------------------------------------------------------------
(* The request row by row: steps 2, 3 and 5 to 7 of get_weather_data on    *)
(* the frames themselves, from the state in which the location has been    *)
(* resolved.  Step 4 reads the forecast only, and has its own section.     *)
(* The variables of the pipeline hold rows and values here, and log holds  *)
(* the body of which the fetch that has just returned made its frame.      *)

\* The longest hourly.time of a forecast body.
MaxHours == 2

\* The last hour of a day and the first of the next.
HourInputs == {23, 24}

TimeArrays == SeqsUpTo({None} \cup {Some(h) : h \in HourInputs}, MaxHours) \ {<<>>}

\* null, 0.0, 13.6, 20.0
ValueInputs ==
    {None, Some(Zero),
     Some(Float(0, <<1, 11, 3, 3, 3, 3, 3, 3, 3, 3, 3, 3, 3, 3>>, 3)),
     Some(Float(0, <<1, 4>>, 4))}

\* An array holding one value throughout.
Constantly(v, n) == [i \in 1..n |-> v]

\* The bodies of the forecast provider for a request of some variables: a
\* rejected response, and hourly data whose arrays are as long as
\* hourly.time or one longer.
ForecastBodies(variables) ==
    {NoHourly}
    \cup {Hourly(t, variables, Constantly(v, n)) :
            t \in TimeArrays, v \in ValueInputs,
            n \in 1..(MaxHours + 1)} 

\* The bodies of the archive provider: a rejected response, a short history,
\* a history of just enough hours, and the same with one null.
ArchiveBodies(variables) ==
    LET hours == [i \in 1..MinHistoryPoints |-> Some(i)]
        twenty == Some(Float(0, <<1, 4>>, 4))
    IN  {NoHourly,
         Hourly(<<Some(24), None, Some(23), Some(23)>>, variables,
                Constantly(twenty, 4)),
         Hourly(hours, variables, Constantly(twenty, MinHistoryPoints)),
         Hourly(hours, variables,
                <<None>> \o Constantly(twenty, MinHistoryPoints - 1))}

\* 3.0
PredictionInputs == {Float(0, <<1, 8>>, 1)}

NoForecasts == [i \in 1..Len(target_variables) |-> EmptyForecast]

resolution ==
    <<endpoint, request, GOOGLE_MAPS_API_KEY, variation, geocoder, lat, lon,
      geo_data, query, limit, all_suggestions, suggestions>>

SeriesInit ==
    /\ endpoint = "data"
    /\ GOOGLE_MAPS_API_KEY = None
    /\ request = [location |-> None, latitude |-> Some(0), longitude |-> Some(0),
                  historical_days |-> 60]
    /\ query = <<>>
    /\ limit = 0
    /\ pc = StageAfter("resolve")
    /\ variation = 0
    /\ geocoder = 0
    /\ log = <<>>
    /\ lat = Some(0)
    /\ lon = Some(0)
    /\ geo_data = Some(GeoDataFromReverse(ReverseFallback(0, 0), 0, 0))
    /\ attempt = 0
    /\ historical_df = <<>>
    /\ forecast_df = <<>>
    /\ target = 0
    /\ ml_forecasts = NoForecasts
    /\ model = NoModels
    /\ blended_df = <<>>
    /\ response = NoResponse
    /\ all_suggestions = <<>>
    /\ suggestions = <<>>
    /\ NoConditions
    /\ NoEnsemble

\* Step 2, fetch_historical, one variable set per step: the frame of the
\* first body that is accepted and gives a frame with rows, the empty frame
\* of the seven columns after the last set.
SeriesFetchHistorical ==
    /\ pc = "historical"
    /\ \E up \in ArchiveBodies(variable_sets[attempt + 1]) :
        LET frames == IF Accepted(up) THEN hourly_frames(up) ELSE {}
        IN  IF frames # {}
            THEN /\ historical_df' \in frames
                 /\ log' = <<up>>
                 /\ attempt' = 0
                 /\ pc' = StageAfter("historical")
            ELSE /\ log' = <<>>
                 /\ IF attempt + 1 < Len(variable_sets)
                    THEN /\ attempt' = attempt + 1
                         /\ UNCHANGED <<historical_df, pc>>
                    ELSE /\ historical_df' = <<>>
                         /\ attempt' = 0
                         /\ pc' = StageAfter("historical")
    /\ UNCHANGED <<conditions, ensemble>>
    /\ UNCHANGED <<resolution, forecast_df, target, ml_forecasts, model,
                   blended_df, response>>

\* Step 3, fetch_forecast, one variable set per step; the handler raises
\* ValueError for the empty frame returned after the last set.
SeriesFetchForecast ==
    /\ pc = "forecast"
    /\ \E up \in ForecastBodies(variable_sets[attempt + 1]) :
        LET frames == IF Accepted(up) THEN hourly_frames(up) ELSE {}
        IN  IF frames # {}
            THEN /\ forecast_df' \in frames
                 /\ log' = <<up>>
                 /\ attempt' = 0
                 /\ target' = 1
                 /\ pc' = StageAfter("forecast")
                 /\ UNCHANGED response
            ELSE /\ log' = <<>>
                 /\ IF attempt + 1 < Len(variable_sets)
                    THEN /\ attempt' = attempt + 1
                         /\ UNCHANGED <<forecast_df, target, pc, response>>
                    ELSE /\ forecast_df' = <<>>
                         /\ attempt' = 0
                         /\ response' = Failure(StatusOf("ValueError"), "forecast")
                         /\ pc' = "done"
                         /\ UNCHANGED target
    /\ UNCHANGED <<conditions, ensemble>>
    /\ UNCHANGED <<resolution, historical_df, ml_forecasts, model, blended_df>>

\* Step 5 for one target variable; after the last one, blended_df is the
\* copy of forecast_df that step 6 starts from.
SeriesTrain ==
    /\ pc = "train"
    /\ \E train \in TrainOutcomes, predict \in ForecastOutcomes,
          p \in PredictionInputs :
        LET ml == ml_forecast_df(historical_df, forecast_df,
                                 target_variables[target], train, predict,
                                 Constantly(p, Len(forecast_df)))
        IN  /\ ml_forecasts' = [ml_forecasts EXCEPT ![target] = ml]
            /\ model' = [model EXCEPT ![target] =
                             IF ml.kind = "model" THEN train_ensemble_model(train)
                             ELSE None]
            /\ IF target < Len(target_variables)
               THEN /\ target' = target + 1
                    /\ UNCHANGED <<pc, blended_df>>
               ELSE /\ target' = 1
                    /\ blended_df' = forecast_df
                    /\ pc' = StageAfter("train")
    /\ log' = <<>>
    /\ UNCHANGED <<conditions, ensemble>>
    /\ UNCHANGED <<resolution, attempt, historical_df, forecast_df, response>>

\* Step 6 for one target variable and, after the last one, step 7.
SeriesBlend ==
    /\ pc = "blend"
    /\ \E outcome \in BlendOutcomes :
        /\ \E values \in {blended_column(forecast_df, ml_forecasts[target],
                                          target_variables[target], outcome)} :
              blended_df' = WithColumn(blended_df, target_variables[target], values)
        /\ IF target < Len(target_variables)
           THEN /\ target' = target + 1
                /\ UNCHANGED <<pc, response>>
           ELSE /\ response' = DataResponse(historical_df, forecast_df,
                                            ml_forecasts, blended_df')
                /\ pc' = StageAfter("blend")
                /\ UNCHANGED target
    /\ UNCHANGED <<conditions, ensemble>>
    /\ UNCHANGED <<resolution, log, attempt, historical_df, forecast_df,
                   ml_forecasts, model>>

SeriesNext ==
    \/ SeriesFetchHistorical
    \/ SeriesFetchForecast
    \/ SeriesTrain
    \/ SeriesBlend

SeriesSpec == SeriesInit /\ [][SeriesNext]_vars

----------------------------------------------------------------------------
(* blend_ml_and_api on its own: called with alpha=0.6 on any two series.   *)
(* ml_forecasts holds ml_series, forecast_df holds api_series, blended_df  *)
(* what the call returns.                                                  *)

\* 13.6 and 20.0
FloatInputs ==
    {Float(0, <<1, 11, 3, 3, 3, 3, 3, 3, 3, 3, 3, 3, 3, 3>>, 3), Float(0, <<1, 4>>, 4)}

\* The series of up to MaxHours points, in any order of time.
SeriesInputs(tz) ==
    UNION {{TimeSeries(tz, t, v) : v \in [1..Len(t) -> FloatInputs]} :
              t \in SeqsUpTo(HourInputs, MaxHours) \ {<<>>}}

BlendInit ==
    /\ endpoint = "data"
    /\ GOOGLE_MAPS_API_KEY = None
    /\ request = NoRequest
    /\ query = <<>>
    /\ limit = 0
    /\ pc = "blend"
    /\ variation = 0
    /\ geocoder = 0
    /\ log = <<>>
    /\ lat = None
    /\ lon = None
    /\ geo_data = None
    /\ attempt = 0
    /\ historical_df = <<>>
    /\ forecast_df \in SeriesInputs("UTC")
    /\ target = 0
    /\ ml_forecasts \in SeriesInputs("UTC") \cup SeriesInputs("naive")
    /\ model = NoModels
    /\ blended_df = Raised
    /\ response = NoResponse
    /\ all_suggestions = <<>>
    /\ suggestions = <<>>
    /\ NoConditions
    /\ NoEnsemble

\* The call blend_ml_and_api(ml_series, api_series, alpha=0.6).
BlendCall ==
    /\ pc = "blend"
    /\ \E outcome \in BlendOutcomes :
          blended_df' = blend_ml_and_api(ml_forecasts, forecast_df, Alpha, outcome)
    /\ pc' = "done"
    /\ UNCHANGED <<conditions, ensemble>>
    /\ UNCHANGED <<resolution, log, attempt, historical_df, forecast_df, target,
                   ml_forecasts, model, response>>

BlendNext == BlendCall

BlendSpec == BlendInit /\ [][BlendNext]_vars

----------------------------------------------------------------------------
(* extract_current_from_forecast on its own: step 4 of get_weather_data,   *)
(* applied to a forecast frame at some instant.  An instant is a number of *)
(* half hours, so that it may fall between two timestamps.                 *)

Abs(x) == IF x < 0 THEN -x ELSE x

\* (forecast_df["time"] - now).abs() of one row, in half hours.
time_diff(row, instant) == Abs(2 * row.time - instant)

\* forecast_df["time_diff"].idxmin(): the first row of the least difference.
idxmin(df, instant) ==
    CHOOSE i \in 1..Len(df) :
        /\ \A j \in 1..Len(df) : time_diff(df[i], instant) <= time_diff(df[j], instant)
        /\ \A j \in 1..(i - 1) : time_diff(df[j], instant) > time_diff(df[i], instant)

\* A map that keeps the values that are truthy: no None and no 0.0.
Known_Truthy(mapping) ==
    [k \in {c \in DOMAIN mapping : mapping[c] # None /\ mapping[c] # Some(Zero)} |->
        mapping[k][1]]

\* {k: v for k, v in current.items() if v is not None}
Known(mapping) ==
    [k \in {c \in DOMAIN mapping : mapping[c] # None} |-> mapping[k][1]]

\* extract_current_from_forecast: the known values of the row closest to
\* the instant, and the empty map for an empty frame.
extract_current_from_forecast(df, instant) ==
    IF df = <<>> THEN Known(<<>>)
    ELSE LET closest_row == df[idxmin(df, instant)]
         IN  Known([c \in AllColumns |->
                       IF closest_row.cells[c] # NaN THEN Some(closest_row.cells[c])
                       ELSE None])

\* null, 0.0 and 13.6
CurrentValueInputs ==
    {NaN, Zero, Float(0, <<1, 11, 3, 3, 3, 3, 3, 3, 3, 3, 3, 3, 3, 3>>, 3)}

\* The rows of an hour: one value in the target columns, one in the others.
RowInputs(h) ==
    {[time |-> h,
      cells |-> [c \in AllColumns |->
                    IF c \in Range(target_variables) THEN v ELSE w]] :
        v \in CurrentValueInputs, w \in CurrentValueInputs}

\* The frames fetch_forecast returns: rows in ascending order of time, a
\* timestamp possibly more than once.  The handler raises on an empty frame
\* before step 4.
RECURSIVE FramesFrom(_, _)
FramesFrom(h, n) ==
    IF n = 0 THEN {<<>>}
    ELSE {<<>>} \cup UNION {{<<r>> \o rest : r \in RowInputs(k),
                                             rest \in FramesFrom(k, n - 1)} :
                               k \in {x \in HourInputs : x >= h}}

CurrentFrames == FramesFrom(0, MaxHours) \ {<<>>}

\* Instants before, at, between and after the hours of HourInputs.
NowInputs == {0, 46, 47, 48, 51}

\* The variables of the handler at rest, for a function applied on its own.
AtRest ==
    /\ endpoint = "data"
    /\ GOOGLE_MAPS_API_KEY = None
    /\ request = NoRequest
    /\ query = <<>>
    /\ limit = 0
    /\ variation = 0
    /\ geocoder = 0
    /\ lat = None
    /\ lon = None
    /\ geo_data = None
    /\ attempt = 0
    /\ target = 0
    /\ model = NoModels
    /\ response = NoResponse
    /\ all_suggestions = <<>>
    /\ suggestions = <<>>

CurrentInit ==
    /\ AtRest
    /\ pc = "current"
    /\ log = <<>>
    /\ historical_df = <<>>
    /\ forecast_df \in CurrentFrames
    /\ ml_forecasts = NoForecasts
    /\ blended_df = <<>>
    /\ now \in NowInputs
    /\ current = <<>>
    /\ NoEnsemble

\* The call extract_current_from_forecast(forecast_df) at the instant now.
ExtractCurrent ==
    /\ pc = "current"
    /\ current' = extract_current_from_forecast(forecast_df, now)
    /\ pc' = "done"
    /\ UNCHANGED <<ensemble, resolution, now, log, attempt, historical_df,
                   forecast_df, target, ml_forecasts, model, blended_df, response>>

CurrentNext == ExtractCurrent

CurrentSpec == CurrentInit /\ [][CurrentNext]_vars

----------------------------------------------------------------------------
(* The ensemble on its own: services/ml.py.  train_local_model and         *)
(* forecast_with_model as create_ml_forecast_df calls them, on a history   *)
(* of at least MinHistoryPoints clean values indexed by time.  A fitted    *)
(* estimator is the set of the feature columns it was fitted on; what it   *)
(* predicts, what it scores and whether a call raises are the choice of    *)
(* the environment.  log holds, per iteration of the loop, what it did.    *)

Max(a, b) == IF a < b THEN b ELSE a

\* lags=24 of create_ml_forecast_df
Lags == 24

\* len(series.dropna()) > 100 of train_ensemble_model
AdvancedTrainingPoints == 100

\* len(window) > 48 of forecast_with_ensemble
AdvancedWindowLength == 48

\* range(1, min(lags + 1, 48)) of create_advanced_features
LagFeatureBound == 48

\* The margin of create_advanced_features (lags + 10) and the least number
\* of rows train_ensemble_model fits on.
FeatureMargin == 10
MinTrainingRows == 10

\* for window in [3, 6, 12, 24]
RollingWindows == {3, 6, 12, 24}

\* df['value'].diff(24)
DailyDifference == 24

\* The columns lag_1 .. lag_n.
LagColumns(n) == {<<"lag", j>> : j \in 1..n}

\* create_simple_features: the columns of X, the number of its rows and the
\* number of lags it used.
create_simple_features(values, n) ==
    LET used == IF Len(values) < n + 1 THEN Max(1, Len(values) \div 2) ELSE n
    IN  [columns |-> LagColumns(used), rows |-> Max(0, Len(values) - used)]

\* create_advanced_features: the columns of X and the number of its rows.
\* dropna removes the first rows, which the longest shift leaves without a
\* value.
create_advanced_features(values, n) ==
    IF Len(values) < n + FeatureMargin THEN create_simple_features(values, n)
    ELSE LET shifts == Min(n + 1, LagFeatureBound) - 1
         IN  [columns |->
                 LagColumns(shifts)
                 \cup {<<name, w>> :
                          name \in {"rolling_mean", "rolling_std", "rolling_min",
                                    "rolling_max"},
                          w \in {x \in RollingWindows : Len(values) > x}}
                 \cup {<<"diff", 1>>, <<"diff", DailyDifference>>}
                 \cup {<<name, 0>> :
                          name \in {"hour", "day_of_week", "day_of_month", "month",
                                    "hour_sin", "hour_cos", "day_sin", "day_cos",
                                    "trend", "value_ma"}},
              rows |-> Max(0, Len(values) - Max(shifts, DailyDifference))]

\* The weights of train_ensemble_model with the test on each score.
ensemble_weights_BothPositive(rf_score, gb_score) ==
    LET total_score == FloatAdd(rf_score, gb_score)
    IN  IF FloatLess(Zero, rf_score) /\ FloatLess(Zero, gb_score)
        THEN [rf |-> FloatDivide(rf_score, total_score),
              gb |-> FloatDivide(gb_score, total_score)]
        ELSE [rf |-> Float(0, <<1>>, -1), gb |-> Float(0, <<1>>, -1)]

\* The weights train_ensemble_model makes of the two training scores.
ensemble_weights(rf_score, gb_score) ==
    LET total_score == FloatAdd(rf_score, gb_score)
    IN  IF FloatLess(Zero, total_score)
        THEN [rf |-> FloatDivide(rf_score, total_score),
              gb |-> FloatDivide(gb_score, total_score)]
        ELSE [rf |-> Float(0, <<1>>, -1), gb |-> Float(0, <<1>>, -1)]

\* train_local_model, that is train_ensemble_model: the dictionary and the
\* lags it returns.  The history is indexed by time, so the advanced features
\* are made of more than 100 values.  An exception in the try block, that of
\* too few rows included, leads to the single model fitted on the simple
\* features; outcome tells whether fitting the ensemble raised.
train_local_model(values, n, outcome, rf_score, gb_score) ==
    LET advanced == Len(values) > AdvancedTrainingPoints
        X == IF advanced THEN create_advanced_features(values, n)
             ELSE create_simple_features(values, n)
        simple == create_simple_features(values, n)
    IN  IF outcome = "ensemble" /\ X.rows >= MinTrainingRows
        THEN [models |-> [rf |-> X.columns, gb |-> Some(X.columns),
                          weights |-> ensemble_weights(rf_score, gb_score)],
              lags |-> IF advanced THEN n ELSE Cardinality(X.columns)]
        ELSE [models |-> [rf |-> simple.columns, gb |-> None,
                          weights |-> [rf |-> One, gb |-> Zero]],
              lags |-> Cardinality(simple.columns)]

\* X_pred of an iteration: the columns of the features made of the window.
prediction_features(values, n) ==
    IF Len(values) > AdvancedWindowLength
    THEN LET X == create_advanced_features(values, Min(n, Len(values)))
         IN  IF X.rows > 0 THEN X.columns ELSE LagColumns(n)
    ELSE LagColumns(n)

\* predict raises ValueError for features other than those of the fit.
predict_raises(estimator, columns) == estimator # columns

\* predictions_rf[i] * weights['rf'] + predictions_gb[i] * weights['gb']
combined(rf, gb, weights) ==
    FloatAdd(FloatMultiply(rf, weights.rf), FloatMultiply(gb, weights.gb))

\* The points in an iteration at which an exception is raised: in making the
\* features, in either predict, in the update of the window, or nowhere.
FaultPoints == {"none", "features", "rf", "gb", "update"}

\* The most iterations of one call in which the environment raises an
\* exception that the features do not cause.
MaxFaults == 1

\* The scores of a fit: -0.5, 0.25 and 1.0
ScoreInputs == {Float(1, <<1>>, -1), Float(0, <<1>>, -2), One}

\* The predictions of the two estimators: 3.0 and 5.0
RfPredictions == {Float(0, <<1, 8>>, 1)}
GbPredictions == {Float(0, <<1, 4>>, 2)}

\* The numbers of rows of a forecast: few, and enough for the window to
\* grow beyond AdvancedWindowLength.
StepInputs == {2, AdvancedWindowLength - Lags + 2}

\* The histories: hourly values of 20.0 ending in 13.6, as many as the
\* handler requires and as many as the advanced features require.
HistoryInputs ==
    {[i \in 1..n |->
         [time |-> i,
          value |-> IF i = n
                    THEN Float(0, <<1, 11, 3, 3, 3, 3, 3, 3, 3, 3, 3, 3, 3, 3>>, 3)
                    ELSE Float(0, <<1, 4>>, 4)]] :
        n \in {MinHistoryPoints, AdvancedTrainingPoints + 1}}

\* The values of a series.
SeriesValues(s) == [i \in 1..Len(s) |-> s[i].value]

\* series.iloc[-n:]
Last(s, n) == SubSeq(s, Max(1, Len(s) - n + 1), Len(s))

EnsembleInit ==
    /\ AtRest
    /\ pc = "train"
    /\ log = <<>>
    /\ historical_df = <<>>
    /\ forecast_df = <<>>
    /\ ml_forecasts = NoForecasts
    /\ blended_df = <<>>
    /\ NoConditions
    /\ clean_series \in HistoryInputs
    /\ steps \in StepInputs
    /\ lags = Lags
    /\ scores = <<>>
    /\ models = <<>>
    /\ window = <<>>
    /\ predictions_rf = <<>>
    /\ predictions_gb = <<>>
    /\ step = 0
    /\ final_predictions = <<>>

\* model, lags = train_local_model(historical_series, lags=24).  When the
\* fit of the single model raises too, create_ml_forecast_df returns the
\* API forecast.
EnsembleTrain ==
    /\ pc = "train"
    /\ \E outcome \in TrainOutcomes :
          IF outcome = "raise"
          THEN /\ pc' = "done"
               /\ UNCHANGED <<scores, models, lags>>
          ELSE \E rf_score \in ScoreInputs, gb_score \in ScoreInputs :
                  \E trained \in {train_local_model(SeriesValues(clean_series), lags,
                                                     outcome, rf_score, gb_score)} :
                      /\ scores' = IF trained.models.gb = None THEN <<>>
                                   ELSE <<rf_score, gb_score>>
                      /\ models' = trained.models
                      /\ lags' = trained.lags
                      /\ pc' = "forecast"
    /\ UNCHANGED <<conditions, resolution, log, attempt, historical_df, forecast_df,
                   target, ml_forecasts, model, blended_df, response, clean_series,
                   steps, window, predictions_rf, predictions_gb, step,
                   final_predictions>>

\* forecast_with_model up to its loop: a history shorter than lags gives its
\* last value steps times; the window is the last lags values.
EnsembleStart ==
    /\ pc = "forecast"
    /\ IF Len(clean_series) < lags
       THEN /\ final_predictions' =
                   Constantly(IF clean_series = <<>> THEN Zero
                              ELSE clean_series[Len(clean_series)].value, steps)
            /\ pc' = "done"
            /\ UNCHANGED window
       ELSE /\ window' = Last(clean_series, lags)
            /\ pc' = "loop"
            /\ UNCHANGED final_predictions
    /\ scores' = <<>>
    /\ UNCHANGED <<conditions, resolution, log, attempt, historical_df, forecast_df,
                   target, ml_forecasts, model, blended_df, response, clean_series,
                   steps, lags, models, predictions_rf, predictions_gb, step>>

\* The faults of the environment an iteration may meet: none once MaxFaults
\* iterations have met one, and none in the second predict without a second
\* estimator.
Faults ==
    IF Cardinality({i \in 1..Len(log) : log[i].fault # "none"}) >= MaxFaults
    THEN {"none"}
    ELSE IF models.gb = None THEN FaultPoints \ {"gb"} ELSE FaultPoints

\* One iteration of the loop of forecast_with_ensemble.  An exception before
\* predictions_rf.append leaves the appends to the handler; one after it
\* comes when the try block has appended already.
EnsembleStep ==
    /\ pc = "loop"
    /\ step < steps
    /\ \E fault \in Faults, pred_rf \in RfPredictions, pred_gb \in GbPredictions :
        LET columns == prediction_features(SeriesValues(window), lags)
            mismatch == predict_raises(models.rf, columns)
            last_val == window[Len(window)].value
            next_time == window[Len(window)].time + 1
            early == fault \in {"features", "rf"} \/ mismatch
            tried_rf == IF early THEN <<>> ELSE <<pred_rf>>
            tried_gb == IF early \/ fault = "gb" THEN <<>>
                        ELSE IF models.gb # None THEN <<pred_gb>> ELSE <<pred_rf>>
            raised == early \/ fault \in {"gb", "update"}
        IN  \E value \in {IF raised THEN last_val
                          ELSE combined(tried_rf[1], tried_gb[1], models.weights)} :
              /\ predictions_rf' = predictions_rf \o tried_rf
                                      \o (IF raised THEN <<last_val>> ELSE <<>>)
              /\ predictions_gb' = predictions_gb \o tried_gb
                                      \o (IF raised THEN <<last_val>> ELSE <<>>)
              /\ window' = Append(window, [time |-> next_time, value |-> value])
              /\ log' = Append(log, [fault |-> IF mismatch /\ fault # "features"
                                               THEN "none" ELSE fault,
                                     mismatch |-> mismatch /\ fault # "features",
                                     raised |-> raised,
                                     columns |-> columns,
                                     length |-> Len(window),
                                     last_val |-> last_val,
                                     rf |-> tried_rf, gb |-> tried_gb,
                                     value |-> value])
    /\ step' = step + 1
    /\ UNCHANGED <<conditions, resolution, pc, attempt, historical_df, forecast_df,
                   target, ml_forecasts, model, blended_df, response, clean_series,
                   steps, lags, scores, models, final_predictions>>

\* final_predictions, and the return.
EnsembleReturn ==
    /\ pc = "loop"
    /\ step = steps
    /\ final_predictions' =
          [i \in 1..steps |->
              combined(predictions_rf[i], predictions_gb[i], models.weights)]
    /\ pc' = "done"
    /\ UNCHANGED <<conditions, resolution, log, attempt, historical_df, forecast_df,
                   target, ml_forecasts, model, blended_df, response, clean_series,
                   steps, lags, scores, models, window, predictions_rf,
                   predictions_gb, step>>

EnsembleNext ==
    \/ EnsembleTrain
    \/ EnsembleStart
    \/ EnsembleStep
    \/ EnsembleReturn

EnsembleSpec == EnsembleInit /\ [][EnsembleNext]_vars

----------------------------------------------------------------------------
(* Properties                                                              *)

HasText == Truthy(request.location)
HasPair == request.latitude # None /\ request.longitude # None
KeyConfigured == GOOGLE_MAPS_API_KEY # None /\ GOOGLE_MAPS_API_KEY[1] # <<>>

\* log holds the calls of geocode_location, of reverse_geocode.
GeocodeLog == log # <<>> /\ log[1].service = "geocode"
ReverseLog == log # <<>> /\ log[1].service = "reverse"

\* No call but the last returned a result.
OnlyLastMayHit == \A i \in 1..(Len(log) - 1) : ~log[i].ok
NoHit == \A i \in 1..Len(log) : ~log[i].ok

\* C1: once a location is resolved and the forecast fetch has returned a
\* non-empty series, the request cannot fail: it is not answered with an
\* error, it can always take its next step, and when it ends it ends with
\* a response, whatever the historical fetch, the training, the forecasting
\* and the blending of each target variable did.
C1_ResolvedAndForecastGivesResponse ==
    (endpoint = "data" /\ geo_data # None /\ ~forecast_df.empty) =>
        /\ response.status \in {NoResponse.status, 200}
        /\ pc = "done" => response.status = 200
        /\ pc # "done" => ENABLED Next

\* A response after a training failure for temperature and a blending
\* failure for radiation.
C1_Witness ==
    /\ pc = "done" /\ response.status = 200
    /\ CleanPoints(historical_df, "temperature_2m") >= MinHistoryPoints
    /\ ml_forecasts[1] = "api"
    /\ ml_forecasts[2] = "model" /\ blended_df[2] = "api"

\* C2: a failed request is answered with a client error exactly when no
\* location was supplied or resolved, and with the server error 500 for
\* every other failure, the failure of the forecast fetch among them.
C2_ClientErrorOnlyForLocation ==
    (endpoint = "data" /\ pc = "done" /\ response.status # 200) =>
        IF geo_data = None THEN response.status \in 400..499
        ELSE response.status = 500

\* C3 as stated: a request is rejected by validation exactly when it does
\* not carry exactly one of the location text and the coordinate pair.
C3_ExactlyOneAccepted ==
    (endpoint = "data" /\ pc # "start") =>
        ((response.status = RequestValidationStatus) <=> (HasText = HasPair))

\* C3 as amended: a request is rejected by validation exactly when it
\* carries neither the location text nor the full coordinate pair, and then
\* no call is made and nothing more happens; a request that carries both is
\* accepted and resolved from its coordinates, with no forward geocoding.
C3_AtLeastOneAccepted ==
    (endpoint = "data" /\ pc # "start") =>
        /\ (response.status = RequestValidationStatus) <=> (~HasText /\ ~HasPair)
        /\ response.status = RequestValidationStatus =>
              pc = "done" /\ log = <<>> /\ geo_data = None /\ ~ENABLED Next
        /\ (HasText /\ HasPair) =>
              /\ \A i \in 1..Len(log) : log[i].service # "geocode"
              /\ pc # "resolve" => lat = request.latitude /\ lon = request.longitude
              /\ geo_data # None =>
                    /\ geo_data[1].latitude = request.latitude[1]
                    /\ geo_data[1].longitude = request.longitude[1]

\* A request with a text and a pair, resolved by reverse geocoding.
C3_Witness ==
    /\ HasText /\ HasPair /\ pc = "historical" /\ geo_data # None
    /\ ReverseLog

IndexOf(seq, x) == CHOOSE i \in 1..Len(seq) : seq[i] = x

\* The index of the variation a geocoding call was made with.
VariationOf(call) ==
    IndexOf(_try_with_variations(request.location[1]), call.arg)

NumVariations == Len(_try_with_variations(request.location[1]))

PriorityRank(provider) ==
    IndexOf(<<"Google Maps", "Open-Meteo", "Nominatim", "GeoCode.xyz">>, provider)

\* C4 as stated: geocode_location goes through the providers in priority
\* order and, for each provider, through all the variations before it
\* moves to the next provider.
C4_ProviderMajorOrder ==
    GeocodeLog =>
        \A i \in 1..(Len(log) - 1) :
            \/ /\ log[i + 1].provider = log[i].provider
               /\ VariationOf(log[i + 1]) = VariationOf(log[i]) + 1
            \/ /\ PriorityRank(log[i + 1].provider) > PriorityRank(log[i].provider)
               /\ VariationOf(log[i]) = NumVariations
               /\ VariationOf(log[i + 1]) = 1

\* C4 as amended: geocode_location goes through the variations in order
\* (the original text first) and, for each variation, through the providers
\* in the priority order paid provider (only with a key), Open-Meteo,
\* Nominatim, GeoCode.xyz, before it moves to the next variation; the first
\* call that yields a result carrying latitude and longitude ends it with
\* that result, and no call follows.
C4_VariationMajorOrder ==
    GeocodeLog =>
        /\ VariationOf(log[1]) = 1
        /\ log[1].provider = IF KeyConfigured THEN "Google Maps" ELSE "Open-Meteo"
        /\ \A i \in 1..Len(log) : log[i].provider = "Google Maps" => KeyConfigured
        /\ \A i \in 1..(Len(log) - 1) :
              \/ /\ VariationOf(log[i + 1]) = VariationOf(log[i])
                 /\ PriorityRank(log[i + 1].provider) = PriorityRank(log[i].provider) + 1
              \/ /\ VariationOf(log[i + 1]) = VariationOf(log[i]) + 1
                 /\ log[i].provider = "GeoCode.xyz"
                 /\ log[i + 1].provider = log[1].provider
        /\ OnlyLastMayHit
        /\ log[Len(log)].ok <=> geo_data # None
        /\ geo_data # None =>
              /\ pc = "historical"
              /\ geo_data[1].latitude \in Int /\ geo_data[1].longitude \in Int
              /\ lat = Some(geo_data[1].latitude) /\ lon = Some(geo_data[1].longitude)

\* The second variation resolved by Nominatim after the paid provider and
\* Open-Meteo failed for it: every provider was tried with the original text.
C4_Witness ==
    /\ GeocodeLog /\ KeyConfigured /\ geo_data # None
    /\ Len(log) = 7
    /\ log[7].provider = "Nominatim" /\ VariationOf(log[7]) = 2

HasComma(text) == \E i \in 1..Len(text) : text[i] = ","

\* The variants the text of the request is to be tried with.
ExpectedVariants ==
    LET t == strip(request.location[1])
    IN  IF HasComma(t) THEN <<t>>
        ELSE <<t>> \o [i \in 1..9 |-> t \o CountrySuffixes[i]]

ExpectedProviders == IF KeyConfigured THEN 4 ELSE 3

ExpectedCoordinateName ==
    IF request.latitude = Some(0) /\ request.longitude = Some(0)
    THEN <<"0", ".", "0", "0", "0", "0", ",", " ", "0", ".", "0", "0", "0", "0">>
    ELSE IF request.latitude = Some(1852046) /\ request.longitude = Some(-4)
         THEN <<"1", "8", ".", "5", "2", "0", "5", ",", " ",
                "-", "0", ".", "0", "0", "0", "0">>
         ELSE <<>>

\* C6: for a request with a coordinate pair, whatever each provider does
\* (result, no result, exception), reverse_geocode returns and never raises:
\* while it runs the request has not failed and the next provider can be
\* called, at most once each; when it has returned there is a resolved
\* location with the coordinates of the request; when no provider gave a
\* result its name and display name are the coordinates with four decimals
\* ("0.0000, 0.0000" for 0, 0); the only failure such a request can end with
\* is that of the forecast fetch.
C6_ReverseNeverRaises ==
    (endpoint = "data" /\ HasPair /\ pc \notin {"start", "resolve"}) =>
        /\ pc = "reverse" =>
              /\ ENABLED ReverseAttempt
              /\ response = NoResponse
              /\ Len(log) = geocoder - 1 /\ Len(log) < ExpectedProviders - 1
        /\ pc # "reverse" =>
              /\ geo_data # None
              /\ geo_data[1].latitude = request.latitude[1]
              /\ geo_data[1].longitude = request.longitude[1]
        /\ (ReverseLog /\ pc # "reverse") =>
              /\ pc = "historical" /\ response = NoResponse
              /\ NoHit =>
                    /\ Len(log) = ExpectedProviders - 1
                    /\ geo_data[1].name = ExpectedCoordinateName
                    /\ ReverseFallback(lat[1], lon[1]).name = ExpectedCoordinateName
                    /\ ReverseFallback(lat[1], lon[1]).display_name = ExpectedCoordinateName
        /\ response.detail \in {"pending", "ok", "forecast"}

\* Latitude 0, longitude 0: the three providers gave nothing, and the name
\* is "0.0000, 0.0000".
C6_Witness ==
    /\ endpoint = "data" /\ pc = "historical" /\ ReverseLog /\ NoHit
    /\ request.latitude = Some(0) /\ request.longitude = Some(0)
    /\ Len(log) = 3
    /\ geo_data[1].name =
          <<"0", ".", "0", "0", "0", "0", ",", " ", "0", ".", "0", "0", "0", "0">>

\* C7 as stated: reverse_geocode tries its providers in the priority order
\* of forward geocoding, the paid provider first when configured, then
\* Open-Meteo before Nominatim.
C7_ForwardPriorityOrder ==
    ReverseLog =>
        \A i \in 1..(Len(log) - 1) :
            PriorityRank(log[i + 1].provider) > PriorityRank(log[i].provider)

\* The order reverse_geocode is to try its providers in.
ExpectedReverseOrder ==
    (IF KeyConfigured THEN <<"Google Maps">> ELSE <<>>)
    \o <<"Nominatim", "Open-Meteo">>

\* C7 as amended: reverse_geocode tries the paid provider first when a key
\* is configured, then Nominatim, then Open-Meteo, each at most once, and
\* returns the result of the first provider in that order that gives one:
\* no provider is called after it.
C7_NominatimBeforeOpenMeteo ==
    ReverseLog =>
        /\ Len(log) <= Len(ExpectedReverseOrder)
        /\ \A i \in 1..Len(log) : log[i].provider = ExpectedReverseOrder[i]
        /\ OnlyLastMayHit
        /\ (log[Len(log)].ok /\ pc # "reverse") =>
              geo_data[1].name \in UpstreamNames
        /\ log[Len(log)].ok => pc # "reverse"

\* Open-Meteo gave the name after the paid provider and Nominatim gave none.
C7_Witness ==
    /\ ReverseLog /\ Len(log) = 3 /\ pc = "historical"
    /\ log[2].provider = "Nominatim" /\ ~log[2].ok
    /\ log[3].provider = "Open-Meteo" /\ log[3].ok

\* C8: without a configured key no call of the paid provider is made, by
\* forward geocoding, reverse geocoding or autocomplete, whatever the free
\* providers do; with a key the paid provider is the first provider that
\* forward geocoding and reverse geocoding call.
C8_PaidProviderOnlyWithKey ==
    /\ \A i \in 1..Len(log) : log[i].provider = "Google Maps" => KeyConfigured
    /\ (KeyConfigured /\ (GeocodeLog \/ ReverseLog)) =>
          log[1].provider = "Google Maps"
    /\ (KeyConfigured /\ pc \in {"geocode", "reverse"} /\ log = <<>>) =>
          /\ geocoder = 1
          /\ pc = "geocode" => ForwardGeocoders(GOOGLE_MAPS_API_KEY)[1] = "Google Maps"
          /\ pc = "reverse" => ReverseGeocoders(GOOGLE_MAPS_API_KEY)[1] = "Google Maps"

\* An empty key: the three free providers failed for all ten variants, and
\* the paid provider was not called.
C8_Witness ==
    /\ GOOGLE_MAPS_API_KEY = Some(<<>>)
    /\ pc = "done" /\ response.detail = "not_found"
    /\ Len(log) = 30
    /\ \A i \in 1..Len(log) : log[i].provider # "Google Maps"

\* The 0.001-degree cell of a coordinate given in 1e-5 degrees.
Cell(x) == CHOOSE c \in -2..2 : (x - 100 * c) \in -49..49

SameCell(a, b) ==
    /\ Cell(a.latitude) = Cell(b.latitude)
    /\ Cell(a.longitude) = Cell(b.longitude)

\* The collected candidate at index i is the first of its cell.
FirstOfCell(i) ==
    \A j \in 1..(i - 1) : ~SameCell(all_suggestions[j], all_suggestions[i])

FirstsOfCells ==
    SelectSeq([i \in 1..Len(all_suggestions) |-> i], FirstOfCell)

AutocompleteRank(source) ==
    IndexOf(<<"Open-Meteo", "Nominatim", "Google Maps">>, source)

\* C9: in the list get_autocomplete_suggestions returns no two suggestions
\* round to the same 3-decimal pair; of the candidates of one cell the one
\* kept is the first in collection order, the candidates being collected
\* provider by provider in the order the providers are queried; the list
\* has at most limit entries and keeps the collection order.
C9_OnePerCellFirstSeen ==
    (endpoint = "autocomplete" /\ pc = "done") =>
        /\ Len(suggestions) <= limit
        /\ \A i, j \in 1..Len(suggestions) :
              i # j => ~SameCell(suggestions[i], suggestions[j])
        /\ \A i \in 1..(Len(all_suggestions) - 1) :
              AutocompleteRank(all_suggestions[i].source)
                  <= AutocompleteRank(all_suggestions[i + 1].source)
        /\ Len(suggestions) = Min(limit, Len(FirstsOfCells))
        /\ \A k \in 1..Len(suggestions) :
              suggestions[k] = all_suggestions[FirstsOfCells[k]]

\* Open-Meteo gave one candidate and Nominatim two, the first of them in the
\* cell of Open-Meteo's: Open-Meteo's is kept, then Nominatim's second.
C9_Witness ==
    /\ endpoint = "autocomplete" /\ pc = "done"
    /\ Len(all_suggestions) = 3
    /\ all_suggestions[1].source = "Open-Meteo"
    /\ all_suggestions[2].source = "Nominatim"
    /\ SameCell(all_suggestions[1], all_suggestions[2])
    /\ all_suggestions[1] # [all_suggestions[2] EXCEPT !.source = "Open-Meteo"]
    /\ suggestions = <<all_suggestions[1], all_suggestions[3]>>

Collected(source) ==
    Cardinality({i \in 1..Len(all_suggestions) : all_suggestions[i].source = source})

Queried(provider) == \E i \in 1..Len(log) : log[i].provider = provider

\* C10: for a query of at least two characters get_autocomplete_suggestions
\* queries Open-Meteo, then Nominatim, then the paid provider when a key is
\* configured, none of them twice, and stops early: Nominatim is queried
\* exactly when Open-Meteo gave fewer than limit suggestions, the paid
\* provider exactly when a key is configured and Open-Meteo and Nominatim
\* together gave fewer than limit; a shorter query queries no provider.
C10_QueryOrderAndEarlyStop ==
    (endpoint = "autocomplete" /\ pc = "done") =>
        IF Len(strip(query)) < 2 THEN log = <<>> /\ suggestions = <<>>
        ELSE /\ log # <<>> /\ log[1].provider = "Open-Meteo"
             /\ \A i \in 1..(Len(log) - 1) :
                   AutocompleteRank(log[i].provider)
                       < AutocompleteRank(log[i + 1].provider)
             /\ Queried("Nominatim") <=> Collected("Open-Meteo") < limit
             /\ Queried("Google Maps") <=>
                   /\ KeyConfigured
                   /\ Collected("Open-Meteo") + Collected("Nominatim") < limit

\* With a key configured, the paid provider is not queried once Open-Meteo
\* and Nominatim have filled the limit.
C10_Witness ==
    /\ endpoint = "autocomplete" /\ pc = "done" /\ KeyConfigured
    /\ Len(log) = 2 /\ log[2].provider = "Nominatim"
    /\ Collected("Open-Meteo") < limit
    /\ Collected("Open-Meteo") + Collected("Nominatim") >= limit

\* C11: autocomplete never raises: whatever each provider does, the service
\* can always take its next step and ends with a list and no error; the list
\* is empty, and no provider was queried, when the trimmed query has fewer
\* than two characters; it is empty when no provider gave a suggestion; a
\* provider that fails gives nothing and the next provider is still queried
\* (the paid one when a key is configured).
C11_AutocompleteNeverRaises ==
    endpoint = "autocomplete" =>
        /\ response = NoResponse
        /\ pc # "done" => ENABLED Next
        /\ pc = "done" =>
              /\ DOMAIN suggestions = 1..Len(suggestions)
              /\ Len(strip(query)) < 2 => log = <<>> /\ suggestions = <<>>
              /\ NoHit => all_suggestions = <<>> /\ suggestions = <<>>
              /\ (log # <<>> /\ ~log[1].ok) =>
                    /\ Len(log) >= 2 /\ log[2].provider = "Nominatim"
                    /\ (KeyConfigured /\ ~log[2].ok) =>
                          Len(log) = 3 /\ log[3].provider = "Google Maps"
              /\ \A i \in 1..Len(log) :
                    ~log[i].ok => Collected(log[i].provider) = 0

\* Open-Meteo and Nominatim failed, the paid provider gave the suggestions.
C11_Witness ==
    /\ endpoint = "autocomplete" /\ pc = "done"
    /\ Len(log) = 3 /\ ~log[1].ok /\ ~log[2].ok /\ log[3].ok
    /\ suggestions # <<>>

\* log holds the requests of fetch_historical, of fetch_forecast.
ArchiveLog == log # <<>> /\ log[1].service = "archive"
ForecastLog == log # <<>> /\ log[1].service = "forecast"

\* The fetch whose requests log holds is still in its loop.
FetchRunning ==
    \/ ArchiveLog /\ pc = "historical"
    \/ ForecastLog /\ pc = "forecast" /\ attempt > 0

\* C12: fetch_historical and fetch_forecast each request the variable sets
\* of 7, 6, 4 and 2 variables in that order, one request per set, move to
\* the next set after an attempt that is not accepted, return the frame of
\* the first accepted response and make no request after it; only a success
\* response without error or reason field and with a non-empty hourly time
\* array is accepted.
C12_VariableSetsInOrderUntilAccepted ==
    /\ \A i \in 1..4 : Cardinality(variable_sets[i]) = <<7, 6, 4, 2>>[i]
    /\ \A up \in UpstreamWeather :
          Accepted(up) =>
              up.kind \notin {"status", "timeout", "error_payload", "no_hourly",
                              "empty_time"}
    /\ (ArchiveLog \/ ForecastLog) =>
          /\ Len(log) <= 4
          /\ \A i \in 1..Len(log) :
                log[i].arg = i /\ log[i].service = log[1].service
          /\ OnlyLastMayHit
          /\ FetchRunning => NoHit /\ Len(log) = attempt /\ Len(log) < 4
          /\ ~FetchRunning =>
                LET df == IF ArchiveLog THEN historical_df ELSE forecast_df
                IN  /\ attempt = 0
                    /\ NoHit => Len(log) = 4 /\ df.empty
                    /\ ~NoHit =>
                          /\ ~df.empty /\ df.rows > 0
                          /\ df.columns = variable_sets[Len(log)]

\* The forecast came with the third variable set, after two refusals.
C12_Witness ==
    /\ ForecastLog /\ pc = "train" /\ Len(log) = 3 /\ log[3].ok
    /\ Cardinality(forecast_df.columns) = 4

\* C14: when each of the four historical attempts fails (error status,
\* timeout, error payload, missing or empty time array, processing error),
\* fetch_historical returns an empty frame and raises nothing: the request
\* has not failed and goes on to the forecast fetch; no request ever fails
\* in the historical fetch, and a request with an empty historical frame and
\* a forecast ends with a response.
C14_HistoricalFailureIsNotFatal ==
    endpoint = "data" =>
        /\ (ArchiveLog /\ pc = "historical") => response = NoResponse
        /\ (ArchiveLog /\ pc # "historical") =>
              /\ pc = "forecast" /\ response = NoResponse
              /\ ENABLED FetchForecast
              /\ (NoHit /\ Len(log) = Len(variable_sets)) => historical_df.empty
              /\ NoHit => Len(log) = Len(variable_sets)
        /\ response.detail # "fetch_historical"
        /\ (historical_df.empty /\ ~forecast_df.empty) =>
              /\ response.status \in {NoResponse.status, 200}
              /\ pc = "done" => response.status = 200
              /\ pc # "done" => ENABLED Next

\* The four historical attempts have failed and the forecast fetch is next.
C14_Witness ==
    /\ ArchiveLog /\ NoHit /\ Len(log) = 4
    /\ pc = "forecast" /\ historical_df.empty /\ response = NoResponse

\* How far the handler has come: step 1 (with its geocoding), step 2,
\* step 3, step 5, step 6, the return.
StageRank(p) ==
    CASE p = "start" -> 0
      [] p \in {"resolve", "geocode", "reverse"} -> 1
      [] p = "historical" -> 2
      [] p = "forecast" -> 3
      [] p = "train" -> 4
      [] p = "blend" -> 5
      [] OTHER -> 6

ResolutionFailed ==
    response.detail \in {"validation", "empty_location", "missing_input", "not_found"}

\* What the order of the stages means in every state of a request.
StagesInOrderSoFar ==
    endpoint = "data" =>
        /\ (ArchiveLog \/ ForecastLog) => geo_data # None
        /\ pc \in {"historical", "forecast", "train", "blend"} =>
              geo_data # None /\ response = NoResponse
        /\ geo_data = None =>
              /\ historical_df = EmptyFrame /\ forecast_df = EmptyFrame
              /\ ml_forecasts = NoTargets /\ blended_df = NoTargets
        /\ ResolutionFailed =>
              geo_data = None /\ pc = "done" /\ ~(ArchiveLog \/ ForecastLog)
        /\ forecast_df.empty =>
              /\ ml_forecasts = NoTargets /\ blended_df = NoTargets
              /\ pc \notin {"train", "blend"}
        /\ response.detail = "forecast" => forecast_df.empty /\ pc = "done"
        /\ pc = "blend" => \A i \in 1..Len(target_variables) : ml_forecasts[i] # "none"

\* What it means for every step of a request.
StageStep ==
    /\ StageRank(pc') >= StageRank(pc)
    /\ geo_data' # geo_data => pc \in {"geocode", "reverse"}
    /\ historical_df' # historical_df => pc = "historical" /\ geo_data # None
    /\ forecast_df' # forecast_df => pc = "forecast" /\ geo_data # None
    /\ ml_forecasts' # ml_forecasts => pc = "train" /\ ~forecast_df.empty
    /\ blended_df' # blended_df =>
          /\ pc \in {"train", "blend"} /\ ~forecast_df.empty
          /\ \A i \in 1..Len(target_variables) : ml_forecasts'[i] # "none"
    /\ response'.status = 200 => pc = "blend"
    /\ (log' # log /\ log' # <<>>
            /\ log'[Len(log')].service \in {"archive", "forecast"}) =>
          /\ geo_data # None
          /\ pc = IF log'[Len(log')].service = "archive" THEN "historical"
                  ELSE "forecast"

\* C20: within a request the stages run in the order resolve location,
\* fetch historical, fetch forecast, train the models, blend, assemble: no
\* weather request is made before a location is resolved and none when the
\* resolution failed; no model is trained before the forecast fetch has
\* returned a forecast and none when it failed; the handler never goes back
\* to an earlier stage, and every result is written by its own stage only.
C20_StagesRunInOrder ==
    [](StagesInOrderSoFar) /\ [][StageStep]_vars

\* A request that went through every stage, with a model for one variable.
C20_Witness ==
    /\ endpoint = "data" /\ pc = "done" /\ response.status = 200
    /\ ~historical_df.empty /\ ml_forecasts[1] = "model"
    /\ blended_df[1] = "blend"

Targets == 1..Len(target_variables)

\* The degradation of the forecasting component in every state.
DegradesToApi ==
    endpoint = "data" =>
        /\ response.detail \notin {"create_ml_forecast_df", "blend_ml_and_api"}
        /\ pc \in {"train", "blend"} => response = NoResponse /\ ENABLED Next
        /\ \A i \in Targets :
              /\ ml_forecasts[i] \in {"none", "empty", "api", "model"}
              /\ blended_df[i] \in {"none", "api", "blend"}
              /\ (ml_forecasts[i] = "model") <=> (model[i] # None)
              /\ model[i] # None =>
                    /\ model[i][1].rf = "RandomForestRegressor"
                    /\ CleanPoints(historical_df, target_variables[i])
                           >= MinHistoryPoints
                    /\ IF model[i][1].gb = None
                       THEN model[i][1].weights = <<10, 0>>
                       ELSE model[i][1].gb = Some("GradientBoostingRegressor")
              /\ blended_df[i] = "blend" => ml_forecasts[i] \in {"api", "model"}
        /\ (pc = "done" /\ response.status = 200) =>
              /\ response.blended_forecast = blended_df
              /\ \A i \in Targets :
                    /\ response.ml_forecast[i] =
                           IF ml_forecasts[i] = "model" THEN "model" ELSE "api"
                    /\ response.blended_forecast[i] \in {"api", "blend"}

\* The work on one target variable leaves the results of the others alone.
OneVariableAtATime ==
    /\ pc = "train" =>
          \A i \in Targets \ {target} :
              ml_forecasts'[i] = ml_forecasts[i] /\ model'[i] = model[i]
    /\ pc = "blend" =>
          /\ ml_forecasts' = ml_forecasts /\ model' = model
          /\ \A i \in Targets \ {target} : blended_df'[i] = blended_df[i]

\* C19: the forecasting component degrades from the ensemble to the single
\* random forest with weights (1.0, 0.0) when the ensemble training fails,
\* to the API forecast as model forecast when that fails too or when the
\* forecasting fails, and to the API forecast as blended forecast when the
\* blending raises; no exception of training, forecasting or blending
\* reaches the caller, and what happens for one variable leaves the results
\* of the other two as they are.
C19_DegradesAlongTheChain ==
    [](DegradesToApi) /\ [][OneVariableAtATime]_vars

\* Temperature: training or forecasting failed, the model forecast is the
\* API forecast.  Radiation: the single random forest, and a blending that
\* raised.  Wind: the ensemble, blended.
C19_Witness ==
    /\ endpoint = "data" /\ pc = "done" /\ response.status = 200
    /\ CleanPoints(historical_df, "temperature_2m") >= MinHistoryPoints
    /\ ml_forecasts[1] = "api"
    /\ model[2] # None /\ model[2][1].gb = None /\ blended_df[2] = "api"
    /\ model[3] # None /\ model[3][1].gb # None /\ blended_df[3] = "blend"

\* The rows of a frame at one timestamp, and the entries of hourly.time
\* that hold it.
RowsAt(df, h) == {i \in 1..Len(df) : df[i].time = h}
EntriesAt(hourly, h) == {i \in 1..Len(hourly.time) : hourly.time[i] = Some(h)}

\* The frame has the seven columns, one row per timestamp of hourly.time,
\* the values of hourly in the columns hourly has, and a missing cell at
\* every row of a column it lacks.
FrameOfBody(df, hourly) ==
    /\ \A i \in 1..Len(df) : DOMAIN df[i].cells = AllColumns
    /\ Len(df) = Cardinality({i \in 1..Len(hourly.time) : hourly.time[i] # None})
    /\ \A i \in 1..Len(hourly.time) :
          hourly.time[i] # None =>
             Cardinality(RowsAt(df, hourly.time[i][1]))
                = Cardinality(EntriesAt(hourly, hourly.time[i][1]))
    /\ \A i \in 1..Len(df), c \in AllColumns :
          IF c \in hourly.columns
          THEN \E k \in EntriesAt(hourly, df[i].time) :
                  df[i].cells[c] = Number(hourly.values[k])
          ELSE df[i].cells[c] = NaN

\* C13: every frame returned by fetch_historical and fetch_forecast has the
\* seven columns and exactly one row per timestamp of the accepted
\* hourly.time; a column the body lacks is missing at every row, and no row
\* is dropped because cells of it are missing.
C13_SevenColumnsOneRowPerTimestamp ==
    /\ pc = "forecast" /\ log # <<>> => FrameOfBody(historical_df, log[1])
    /\ pc = "train" /\ log # <<>> => FrameOfBody(forecast_df, log[1])

\* A forecast was returned for a body without wind speed and with nulls: it
\* has a row for each of its two timestamps.
C13_Witness ==
    /\ pc = "train"
    /\ log # <<>>
    /\ "wind_speed_10m" \notin log[1].columns
    /\ log[1].values[1] = None
    /\ Len(forecast_df) = 2
    /\ forecast_df[1].cells["wind_speed_10m"] = NaN
    /\ forecast_df[1].cells["temperature_2m"] = NaN

\* No model is trained for any target variable: the history has fewer than
\* the required clean points in each of the three columns.
NoModelTrained ==
    \A i \in 1..Len(target_variables) :
        CleanCount(Column(historical_df, target_variables[i])) < MinHistoryPoints

\* The values of a target variable along a series of the response.
Values(points, column) == [i \in 1..Len(points) |-> points[i].values[column]]

\* C15: when the history has fewer than 48 clean points of a target variable
\* (an empty history included), no model is trained for it, and both the
\* model forecast and the blended forecast of the response equal the API
\* forecast exactly, at every timestamp.
C15_ShortHistoryGivesTheApiForecast ==
    pc = "done" /\ response.status = 200 =>
        \A i \in 1..Len(target_variables) :
            CleanCount(Column(historical_df, target_variables[i])) < MinHistoryPoints =>
                /\ model[i] = None
                /\ Values(response.ml_forecast, target_variables[i])
                      = Values(response.api_forecast, target_variables[i])
                /\ Values(response.blended_forecast, target_variables[i])
                      = Values(response.api_forecast, target_variables[i])

\* With a short history there is no model, and the model forecast of the
\* response is the API forecast.
ShortHistoryModelForecastIsApi ==
    pc = "done" /\ response.status = 200 =>
        \A i \in 1..Len(target_variables) :
            CleanCount(Column(historical_df, target_variables[i])) < MinHistoryPoints =>
                /\ model[i] = None
                /\ Values(response.ml_forecast, target_variables[i])
                      = Values(response.api_forecast, target_variables[i])

\* The timestamps two series share: none when only one index has a timezone.
CommonTimes(a, b) ==
    IF a.tz = b.tz THEN Range(a.time) \cap Range(b.time) ELSE {}

\* 0.4
ApiWeight == Float(0, <<1, 9, 9, 9, 9, 9, 9, 9, 9, 9, 9, 9, 9, 10>>, -2)

\* The result is indexed by exactly the common timestamps, ascending unless
\* the two indexes are equal, and holds 0.6 * model + 0.4 * api at each.
BlendedAtCommonTimes ==
    pc = "done" /\ ~blended_df.raised =>
        LET ml == ml_forecasts
            api == forecast_df
            same == ml.tz = api.tz /\ ml.time = api.time
        IN  /\ Range(blended_df.time) = CommonTimes(ml, api)
            /\ IF same THEN blended_df.time = ml.time
               ELSE \A i, j \in 1..Len(blended_df.time) :
                       i < j => blended_df.time[i] < blended_df.time[j]
            /\ \A k \in 1..Len(blended_df.time) :
                  \E i \in 1..Len(ml.time), j \in 1..Len(api.time) :
                      /\ ml.time[i] = blended_df.time[k]
                      /\ api.time[j] = blended_df.time[k]
                      /\ same => i = k /\ j = k
                      /\ blended_df.values[k]
                            = FloatAdd(FloatMultiply(Alpha, ml.values[i]),
                                       FloatMultiply(ApiWeight, api.values[j]))

\* C16: blend_ml_and_api with alpha=0.6 returns 0.6 * model[t] + 0.4 * api[t]
\* at every common timestamp t, indexed by exactly the common timestamps in
\* ascending order (as given when the two indexes are equal); when the two
\* series are identical the blend equals that series.
C16_BlendIsWeightedSumAndIdentity ==
    /\ BlendedAtCommonTimes
    /\ pc = "done" /\ ml_forecasts = forecast_df =>
          ~blended_df.raised /\ blended_df.values = forecast_df.values

\* The timestamps of a series of the response, in its order.
PointTimes(points) == [i \in 1..Len(points) |-> points[i].time]

\* C17: in every successful response, blended_forecast and ml_forecast have
\* the same length and the same timestamps in the same order as
\* api_forecast, whichever path each variable took: model forecast, API
\* forecast for a short history or a failed model, blend or failed blend.
C17_ForecastsShareTheTimestamps ==
    pc = "done" /\ response.status = 200 =>
        /\ Len(response.ml_forecast) = Len(response.api_forecast)
        /\ Len(response.blended_forecast) = Len(response.api_forecast)
        /\ PointTimes(response.ml_forecast) = PointTimes(response.api_forecast)
        /\ PointTimes(response.blended_forecast) = PointTimes(response.api_forecast)
        /\ Len(response.api_forecast) = Len(forecast_df)

\* A response of two points in which one variable has a model forecast that
\* was not blended, and another the API forecast of a model that failed.
C17_Witness ==
    /\ pc = "done"
    /\ response.status = 200
    /\ Len(response.api_forecast) = 2
    /\ \E i, j \in 1..Len(target_variables) :
          /\ ml_forecasts[i].kind = "model"
          /\ Values(response.ml_forecast, target_variables[i])
                # Values(response.api_forecast, target_variables[i])
          /\ Values(response.blended_forecast, target_variables[i])
                = Values(response.api_forecast, target_variables[i])
          /\ ml_forecasts[j].kind = "api"
    /\ CleanCount(Column(historical_df, "temperature_2m")) >= MinHistoryPoints

\* The order of the time strings of two points: by day, then by hour.
TimeBefore(a, b) == a[1] < b[1] \/ (a[1] = b[1] /\ a[2] < b[2])

\* The four series of a successful response.
EmittedSeries ==
    {response.historical, response.api_forecast, response.ml_forecast,
     response.blended_forecast}

\* The emitted series are in ascending order of time, equal times allowed.
EmittedSeriesAreSorted ==
    pc = "done" /\ response.status = 200 =>
        \A points \in EmittedSeries : \A i, j \in 1..Len(points) :
            i < j => ~TimeBefore(points[j].time, points[i].time)

\* C18: every series of a response is sorted ascending by time and holds no
\* timestamp twice, whatever accepted body it was made of, bodies whose
\* hourly.time is unsorted or repeats a timestamp included.
C18_SortedWithoutDuplicates ==
    pc = "done" /\ response.status = 200 =>
        \A points \in EmittedSeries : \A i, j \in 1..Len(points) :
            i < j => TimeBefore(points[i].time, points[j].time)

\* C30: when get_autocomplete_suggestions returns fewer suggestions than the
\* limit, every available provider was queried: Open-Meteo, Nominatim, and
\* the paid provider when a key is configured.
C30_ShortListMeansEveryProviderQueried ==
    (endpoint = "autocomplete" /\ pc = "done" /\ ~TooShort(query)
     /\ Len(suggestions) < limit) =>
        /\ Queried("Open-Meteo")
        /\ Queried("Nominatim")
        /\ KeyConfigured => Queried("Google Maps")

\* C23: every request to Nominatim, of forward geocoding, of reverse
\* geocoding and of autocomplete, is followed by the fixed delay before the
\* next outbound request is made, whether it gave a result, gave none, or
\* failed.
C23_DelayAfterEveryNominatimCall ==
    \A i \in 1..(Len(log) - 1) :
        log[i].provider = "Nominatim" => log[i].delay

\* The columns that are no target variable.
OtherColumns == AllColumns \ Range(target_variables)

\* Steps 5 to 7 leave the two fetched frames as fetch_* returned them.
FetchedFramesStay ==
    pc \in {"train", "blend"} =>
        historical_df' = historical_df /\ forecast_df' = forecast_df

\* In a successful response the columns that are no target variable are, in
\* ml_forecast and in blended_forecast, those of api_forecast, and
\* api_forecast and historical are the points of the two fetched frames.
OnlyTargetsChanged ==
    pc = "done" /\ response.status = 200 =>
        /\ \A c \in OtherColumns :
              /\ Values(response.ml_forecast, c) = Values(response.api_forecast, c)
              /\ Values(response.blended_forecast, c)
                    = Values(response.api_forecast, c)
        /\ Len(response.historical) = Len(historical_df)
        /\ Len(response.api_forecast) = Len(forecast_df)
        /\ \A i \in 1..Len(historical_df), c \in AllColumns :
              response.historical[i].values[c]
                 = IF historical_df[i].cells[c] = NaN THEN None
                   ELSE Some(historical_df[i].cells[c])
        /\ \A i \in 1..Len(forecast_df), c \in AllColumns :
              response.api_forecast[i].values[c]
                 = IF forecast_df[i].cells[c] = NaN THEN None
                   ELSE Some(forecast_df[i].cells[c])

\* C29: training and blending change only the three target variables: in
\* every successful response relative humidity, cloud cover, precipitation
\* and pressure of ml_forecast and of blended_forecast equal those of
\* api_forecast at every timestamp, and api_forecast and historical are
\* emitted as they were fetched.
C29_OnlyTheTargetVariablesChange ==
    [](OnlyTargetsChanged) /\ [][FetchedFramesStay]_vars

\* A response in which a model forecast and a blend both differ from the API
\* forecast in their target column, and the other columns hold values.
C29_Witness ==
    /\ pc = "done"
    /\ response.status = 200
    /\ \E i, j \in 1..Len(target_variables) :
          /\ Values(response.ml_forecast, target_variables[i])
                # Values(response.api_forecast, target_variables[i])
          /\ Values(response.blended_forecast, target_variables[j])
                # Values(response.api_forecast, target_variables[j])
    /\ \A c \in OtherColumns : response.api_forecast[1].values[c] # None
    /\ Len(response.historical) >= MinHistoryPoints

\* The rows of the forecast no other row is nearer to the instant than.
NearestRows ==
    {i \in 1..Len(forecast_df) :
        \A j \in 1..Len(forecast_df) :
            time_diff(forecast_df[i], now) <= time_diff(forecast_df[j], now)}

\* C22: the current conditions are built from the forecast point whose
\* timestamp is nearest to the instant of the request: the map has exactly
\* the fields of that point whose value is known, with the values of the
\* point, and no key for a field unknown at that point.
C22_CurrentIsTheNearestPoint ==
    pc = "done" =>
        \E i \in NearestRows :
            /\ DOMAIN current
                  = {c \in AllColumns : forecast_df[i].cells[c] # NaN}
            /\ \A c \in DOMAIN current : current[c] = forecast_df[i].cells[c]

\* The instant falls between two points of different values, the later of
\* which is nearer; the map holds its zero and lacks its unknown fields.
C22_Witness ==
    /\ pc = "done"
    /\ Len(forecast_df) = 2
    /\ forecast_df[1].time < forecast_df[2].time
    /\ time_diff(forecast_df[2], now) < time_diff(forecast_df[1], now)
    /\ forecast_df[1].cells["temperature_2m"] # Zero
    /\ forecast_df[1].cells["pressure_msl"] # NaN
    /\ forecast_df[2].cells["temperature_2m"] = Zero
    /\ forecast_df[2].cells["pressure_msl"] = NaN
    /\ DOMAIN current = Range(target_variables)
    /\ current["temperature_2m"] = Zero

\* Every cell of the frame is missing exactly when the body has no value for
\* it, the column being absent or the entry null, and holds the value of the
\* body otherwise, a zero included.
MissingIffAbsent(df, hourly) ==
    \A i \in 1..Len(df), c \in AllColumns :
        \E k \in EntriesAt(hourly, df[i].time) :
            LET absent == c \notin hourly.columns \/ hourly.values[k] = None
            IN  /\ df[i].cells[c] = NaN <=> absent
                /\ ~absent => df[i].cells[c] = hourly.values[k][1]

\* Every field of the points is unknown exactly when the cell of the frame is
\* missing, and is the value of the cell otherwise.
UnknownIffMissing(points, df) ==
    /\ Len(points) = Len(df)
    /\ \A i \in 1..Len(df), c \in AllColumns :
          /\ points[i].values[c] = None <=> df[i].cells[c] = NaN
          /\ df[i].cells[c] # NaN => points[i].values[c] = Some(df[i].cells[c])

\* A field emitted as 0 in the model forecast or the blended forecast is 0 in
\* the API forecast: no unknown value has become a zero.
NoZeroForUnknown(points) ==
    \A i \in 1..Len(points), c \in AllColumns :
        points[i].values[c] = Some(Zero) =>
            response.api_forecast[i].values[c] = Some(Zero)

MissingStaysUnknown ==
    /\ pc = "forecast" /\ log # <<>> => MissingIffAbsent(historical_df, log[1])
    /\ pc = "train" /\ log # <<>> => MissingIffAbsent(forecast_df, log[1])
    /\ pc = "done" /\ response.status = 200 =>
          /\ UnknownIffMissing(response.historical, historical_df)
          /\ UnknownIffMissing(response.api_forecast, forecast_df)
          /\ NoZeroForUnknown(response.ml_forecast)
          /\ NoZeroForUnknown(response.blended_forecast)

LoopIsBounded == step <= steps /\ Len(log) = step

\* x <= y
FloatAtMost(x, y) == ~FloatLess(y, x)

\* 0.5
Half == Float(0, <<1>>, -1)

\* C24: train_ensemble_model returns a weight pair determined by the two
\* training scores: the weight of each model is its score divided by the sum
\* of the two scores, so the higher score has the larger weight; when both
\* scores are non-positive both weights are 0.5; when the training of the
\* ensemble fails the pair is (1.0, 0.0) and there is no second model.  In
\* each of these outcomes the weights sum to 1 and each lies between 0 and 1.
C24_WeightsAreNormalizedScores ==
    pc = "forecast" =>
        /\ IF models.gb = None
           THEN models.weights = [rf |-> One, gb |-> Zero]
           ELSE LET rf_score == scores[1]
                    gb_score == scores[2]
                    total_score == FloatAdd(rf_score, gb_score)
                IN  IF FloatAtMost(rf_score, Zero) /\ FloatAtMost(gb_score, Zero)
                    THEN models.weights = [rf |-> Half, gb |-> Half]
                    ELSE /\ total_score # Zero
                         /\ models.weights.rf = FloatDivide(rf_score, total_score)
                         /\ models.weights.gb = FloatDivide(gb_score, total_score)
                         /\ FloatLess(rf_score, gb_score)
                               => FloatLess(models.weights.rf, models.weights.gb)
                         /\ FloatLess(gb_score, rf_score)
                               => FloatLess(models.weights.gb, models.weights.rf)
        /\ FloatAdd(models.weights.rf, models.weights.gb) = One
        /\ FloatAtMost(Zero, models.weights.rf) /\ FloatAtMost(models.weights.rf, One)
        /\ FloatAtMost(Zero, models.weights.gb) /\ FloatAtMost(models.weights.gb, One)

\* With two positive scores, or two scores that are not positive, or a failed
\* ensemble, the weights are as stated: shares of the sum, equal, or (1, 0).
WeightsOfScoresOfOneSign ==
    pc = "forecast" =>
        IF models.gb = None
        THEN models.weights = [rf |-> One, gb |-> Zero]
        ELSE LET rf_score == scores[1]
                 gb_score == scores[2]
                 total_score == FloatAdd(rf_score, gb_score)
             IN  /\ FloatAtMost(rf_score, Zero) /\ FloatAtMost(gb_score, Zero)
                       => models.weights = [rf |-> Half, gb |-> Half]
                 /\ FloatLess(Zero, rf_score) /\ FloatLess(Zero, gb_score)
                       => /\ models.weights.rf = FloatDivide(rf_score, total_score)
                          /\ models.weights.gb = FloatDivide(gb_score, total_score)
                          /\ FloatAtMost(Zero, models.weights.rf)
                          /\ FloatAtMost(models.weights.rf, One)
                          /\ FloatAtMost(Zero, models.weights.gb)
                          /\ FloatAtMost(models.weights.gb, One)

\* The call has returned a list.
Returned == pc = "done" /\ models # <<>>

\* Every call makes steps iterations and returns steps values, and the
\* iteration that raised has appended the last value to the window.
FailedStepsRepeatInTheWindow ==
    Returned =>
        /\ Len(final_predictions) = steps
        /\ Len(log) = steps
        /\ \A i \in 1..Len(log) : log[i].raised => log[i].value = log[i].last_val

\* C25: forecast_with_ensemble returns exactly steps values: a failure at any
\* step, in the features, in the prediction of either model or in the update
\* of the window, does not abort the loop; the value produced for a failed
\* step is the last value in the window, that value is appended to the
\* window, and the loop goes on with the next step.
C25_FailedStepRepeatsTheLastValue ==
    Returned =>
        /\ Len(final_predictions) = steps
        /\ Len(log) = steps
        /\ \A i \in 1..Len(log) :
              log[i].raised =>
                  /\ log[i].value = log[i].last_val
                  /\ final_predictions[i] = log[i].last_val

\* The values of the history followed by the values the iterations appended.
KnownAndPredicted ==
    SeriesValues(clean_series) \o [i \in 1..Len(log) |-> log[i].value]

\* The window ends with the value of the last iteration, and its timestamps
\* are one hour apart.
WindowGrowsByTheHour ==
    pc = "loop" =>
        /\ SeriesValues(window) = Last(KnownAndPredicted, lags + step)
        /\ step > 0 => window[Len(window)].value = log[step].value
        /\ \A i \in 1..(Len(window) - 1) : window[i + 1].time = window[i].time + 1

\* C26: during recursive forecasting the window of which the features are
\* made is at every step exactly the last lags values, those of the history
\* followed by the blended values appended so far: its length is lags, the
\* blended value of step k is its newest element at step k+1, and its
\* timestamp advances by one hour per step.
C26_WindowIsTheLastLagsValues ==
    pc = "loop" =>
        /\ Len(window) = lags
        /\ SeriesValues(window) = Last(KnownAndPredicted, lags)
        /\ step > 0 => window[Len(window)].value = log[step].value
        /\ \A i \in 1..(Len(window) - 1) : window[i + 1].time = window[i].time + 1

\* While the window is no longer than AdvancedWindowLength, the features of
\* the iterations are those of a model fitted on the simple features.
SimpleFeaturesWhileTheWindowIsShort ==
    \A i \in 1..Len(log) :
        log[i].length <= AdvancedWindowLength /\ log[i].fault # "features"
        /\ Len(clean_series) <= AdvancedTrainingPoints
            => log[i].columns = models.rf /\ ~log[i].mismatch

\* C27: at every step of recursive forecasting the features built for the
\* prediction are those the models were fitted on, so that both models
\* predict and the fallback is not taken for a mismatch of the features,
\* for any history of at least 48 points and any number of steps.
C27_PredictionFeaturesAreTrainingFeatures ==
    \A i \in 1..Len(log) :
        log[i].fault # "features"
            => log[i].columns = models.rf /\ ~log[i].mismatch

\* The entry the i-th iteration has left last in a list of predictions.
Produced(i, tried) == IF log[i].raised THEN log[i].last_val ELSE tried[1]

\* An iteration that does not raise adds one entry to each list, and the
\* value returned for it is the value it appended to the window.
StepsWithoutFailureAreAligned ==
    /\ pc \in {"loop", "done"} /\ (\A i \in 1..Len(log) : ~log[i].raised)
          => Len(predictions_rf) = step /\ Len(predictions_gb) = step
    /\ Returned /\ (\A i \in 1..Len(log) : ~log[i].raised)
          => \A i \in 1..steps : final_predictions[i] = log[i].value

\* C28: every iteration adds exactly one entry to each of the two lists of
\* predictions, wherever in the iteration a failure occurs; after the loop
\* both lists have steps entries, and the value returned for step i is the
\* weighted combination of the two entries of step i, which is the value
\* appended to the window at step i.
C28_OneEntryPerListPerStep ==
    /\ pc \in {"loop", "done"}
          => Len(predictions_rf) = step /\ Len(predictions_gb) = step
    /\ Returned =>
          \A i \in 1..steps :
              /\ final_predictions[i]
                    = combined(Produced(i, log[i].rf), Produced(i, log[i].gb),
                               models.weights)
              /\ final_predictions[i] = log[i].value

====
